---------------------------- MODULE Spec2Model ----------------------------
(***************************************************************************)
(* Skin-condition estimation engine of the Face-scanner app:               *)
(*   - utils/faceDetection.ts : MediaPipe model singleton, face analysis,  *)
(*     landmark-derived skin regions                                       *)
(*   - HeatmapGallery         : per-image analysis cache, region           *)
(*     estimator, redness / pigmentation grids, 3x3 smoothing              *)
(*   - EnhancedScanner        : local analysis of frames and uploads       *)
(*                                                                         *)
(* Numbers.  The source computes in IEEE doubles.  The model is fixed      *)
(* point: a normalized coordinate v is the integer v * UNIT, a pixel       *)
(* intensity i is the integer floor(i * ONE), a smoothed grid value g is   *)
(* the integer g * ONE * KDEN.                                             *)
(***************************************************************************)
EXTENDS Integers, Sequences, FiniteSets, TLC

VARIABLES
  \* ---- region estimator harness (SpecRegions)
  rgIn,        \* the FaceDetector / FaceLandmarker outcome handed to the estimator
  rgOut,       \* the RegionBoxes returned, or NoValue before the call
  \* ---- grid aggregator harness (SpecGrid)
  gdIn,        \* image, regions and metric handed to the grid computation
  gdRaw,       \* the grid before smoothGrid
  gdOut,       \* the HeatGrid returned, or NoValue before the call
  \* ---- utils/faceDetection.ts module state (Spec)
  faceDetector,        \* NoModel (null) or a FaceDetector instance
  faceLandmarker,      \* NoModel (null) or a FaceLandmarker instance
  isInitialized,
  detectorsCreated,    \* FaceDetector instances created since the last cleanup
  landmarkersCreated,  \* FaceLandmarker instances created since the last cleanup
  cleanups,            \* calls of cleanupFaceDetection so far
  \* ---- HeatmapGallery (Spec)
  image,               \* the image element: natural size and content
  scene,               \* what the detectors see in the image
  cache,               \* the module-level Map, image key -> entry
  pc,                  \* where each asynchronous call chain is suspended
  faceResult,          \* per chain: settled value of analyzeFaceForSkinAnalysis
  initRet,             \* per chain: value returned by initializeFaceDetection
  faceAnalyses,        \* analyzeFaceForSkinAnalysis calls for the image key
  rednessComputations, \* computeRednessGrid calls for the image key
  pigmentComputations, \* computePigmentationGrid calls for the image key
  cacheSets,           \* cache.set calls for the image key
  \* ---- EnhancedScanner / CameraWithGuidance (Spec)
  faceDetectionReady,
  scannerError,
  \* ---- EnhancedScanner local analysis (SpecScanner)
  rngState,            \* hidden state of the engine's Math.random generator
  enableLocalAnalysis, \* component prop
  showHeatMap,         \* component prop
  isAnalyzing,
  analysisResult,      \* NoValue (null) or the LocalAnalysisResult shown
  loading,
  imgLoading,          \* the file whose Image element is loading, or NoValue
  uploadedImage,       \* uploadedImageRef.current
  delivered,           \* results handed to onAnalysisResult, each with its input
  \* ---- pages/Analysis.tsx (SpecAnalysis)
  localResult,         \* the LocalAnalysisResult the scanner hands to the page
  pageAnalysisResult,  \* analysisResult of the page: NoValue (null) or an AnalysisResult
  resultFrom,          \* which handler built pageAnalysisResult
  pageIsAnalyzing,     \* isAnalyzing of the page
  inflight,            \* captured files whose backend request is pending
  historySaved,        \* results handed to brain.save_analysis_history
  analyzedImage,       \* the file behind capturedFile and analyzedImageUrl, 0 for none
  saving,              \* files whose save_analysis_history call is pending
  rejections,          \* performAnalysis promises that rejected
  \* ---- canvas renderers harness (SpecRender)
  rdIn,                \* the arguments of one renderer call
  rdOut,               \* what the call painted, or NoValue before the call
  \* ---- trackFaceInRealTime (SpecTracking, SpecCamera)
  videoWidth,          \* videoElement.videoWidth
  trPhase,             \* per loop: "none", "init" (awaiting the models), "tracking"
  isTracking,          \* per loop: the isTracking flag of the closure
  cancelCalled,        \* per loop: the returned cancel function has been called
  analyses,            \* per loop: frame analyses in flight
  timers,              \* per loop: pending setTimeout(track, 100) callbacks
  updates,             \* per loop: calls of onFaceUpdate
  errorsLogged,        \* per loop: calls of console.error by track
  lateUpdates,         \* per loop: calls of onFaceUpdate made after the cancel
  lateTimers,          \* per loop: frames scheduled after the cancel
  sawNoVideo,          \* per loop: a frame found no video width and returned
  \* ---- CameraWithGuidance (SpecCamera)
  isOpen,              \* component prop
  cameraRequests,      \* pending getUserMedia calls
  streamRef,           \* streamRef.current: "null" or "stream"
  liveStreams,         \* media streams obtained whose tracks are not stopped
  metadataPending,     \* the video element has a stream whose metadata is loading
  isVideoReady,
  effectPending,       \* the tracking effect is due to run
  trackingCleanupRef,  \* trackingCleanupRef.current: 0 (null) or the loop it cancels
  \* ---- FaceScanner (SpecFaceScanner)
  modelsLoading,       \* loadModels is awaiting the nets
  isModelLoaded,
  isCameraOn,
  isDetecting,
  fsError,             \* the error state of FaceScanner
  fsCameraRequests,    \* pending getUserMedia calls of FaceScanner
  cameraStarts,        \* presses of Start Camera so far
  srcObject,           \* videoRef.current.srcObject: "null" or "stream"
  fsLiveStreams,       \* streams FaceScanner obtained whose tracks are not stopped
  framesInFlight,      \* detectFaces calls awaiting their detection
  framesStarted,       \* detectFaces calls that got past their first line
  detectionStarts      \* presses of Start Detection so far

rgVars == <<rgIn, rgOut>>
gdVars == <<gdIn, gdRaw, gdOut>>
fdVars == <<faceDetector, faceLandmarker, isInitialized, detectorsCreated,
            landmarkersCreated, cleanups>>
inVars == <<image, scene>>
countVars == <<faceAnalyses, rednessComputations, pigmentComputations, cacheSets>>
scVars == <<faceDetectionReady, scannerError>>
hgVars == <<inVars, cache, pc, faceResult, initRet, countVars, scVars>>

lsVars == <<rngState, enableLocalAnalysis, showHeatMap, isAnalyzing,
            analysisResult, loading, imgLoading, uploadedImage, delivered>>

anVars == <<localResult, pageAnalysisResult, resultFrom, pageIsAnalyzing,
            inflight, historySaved, analyzedImage, saving, rejections>>

rdVars == <<rdIn, rdOut>>

trVars == <<videoWidth, trPhase, isTracking, cancelCalled, analyses, timers,
            updates, errorsLogged, lateUpdates, lateTimers, sawNoVideo>>

cgVars == <<isOpen, cameraRequests, streamRef, liveStreams, metadataPending,
            isVideoReady, effectPending, trackingCleanupRef>>

fsVars == <<modelsLoading, isModelLoaded, isCameraOn, isDetecting, fsError,
            fsCameraRequests, cameraStarts, srcObject, fsLiveStreams,
            framesInFlight, framesStarted, detectionStarts>>

uiVars == <<trVars, cgVars, fsVars>>

vars == <<rgVars, gdVars, fdVars, hgVars, lsVars, anVars, rdVars, uiVars>>

\* undefined / null.  Every value it is compared with is a record.
NoValue == [undefined |-> TRUE]
\* a rejected promise or a thrown exception carrying the named error
Thrown(e) == [throws |-> e]
IsThrown(v) == DOMAIN v = {"throws"}

----------------------------------------------------------------------------
(* Fixed point scale of normalized coordinates: 1.0 is UNIT.  Face boxes   *)
(* lie on the 1/100 lattice, so the proportional factors (all multiples of *)
(* 0.01) are applied exactly.                                              *)
UNIT == 100 * 100

Max2(a, b) == IF a >= b THEN a ELSE b
Min2(a, b) == IF a <= b THEN a ELSE b
Abs(a) == IF a < 0 THEN -a ELSE a

SetMin(S) == CHOOSE m \in S : \A o \in S : m <= o
SetMax(S) == CHOOSE m \in S : \A o \in S : m >= o

RegionNames == {"forehead", "leftCheek", "rightCheek", "nose", "chin"}

Box(x, y, w, h) == [x |-> x, y |-> y, width |-> w, height |-> h]

\* v * pct/100 for a coordinate v and a factor written in hundredths
Pct(v, pct) == (v * pct) \div 100

----------------------------------------------------------------------------
(* utils/faceDetection.ts: landmark-derived skin regions                   *)

\* Landmark sets handed back by FaceLandmarker.detect are described by their
\* length n and a placement lm; landmark i sits at LandmarkAt(lm, i).
LandmarkAt(lm, i) ==
  [x |-> lm.ox + ((i * 37) % 41) * lm.sx,
   y |-> lm.oy + ((i * 53) % 43) * lm.sy]

ForeheadIdx == <<9, 10, 151, 337, 299, 333, 298, 301>>
LeftCheekIdx == <<116, 117, 118, 119, 120, 121, 126, 142>>
RightCheekIdx == <<345, 346, 347, 348, 349, 350, 355, 371>>
NoseIdx == <<1, 2, 5, 4, 6, 19, 20, 94, 125>>
ChinIdx == <<18, 175, 199, 200, 9, 10, 151, 175>>

\* indices.map(i => landmarks[i]).filter(Boolean), then the bounding box
extractRegionFromLandmarks(lm, n, indices) ==
  LET present == {indices[k] : k \in {j \in 1..Len(indices) : indices[j] < n}}
      xs == {LandmarkAt(lm, i).x : i \in present}
      ys == {LandmarkAt(lm, i).y : i \in present}
  IN  IF present = {}
        THEN Box(0, 0, 0, 0)
        ELSE Box(SetMin(xs), SetMin(ys),
                 SetMax(xs) - SetMin(xs), SetMax(ys) - SetMin(ys))

MinLandmarks == 468

extractSkinRegions(lm, n) ==
  IF n < MinLandmarks
    THEN NoValue
    ELSE [forehead   |-> extractRegionFromLandmarks(lm, n, ForeheadIdx),
          leftCheek  |-> extractRegionFromLandmarks(lm, n, LeftCheekIdx),
          rightCheek |-> extractRegionFromLandmarks(lm, n, RightCheekIdx),
          nose       |-> extractRegionFromLandmarks(lm, n, NoseIdx),
          chin       |-> extractRegionFromLandmarks(lm, n, ChinIdx)]

\* The part of analyzeFaceForSkinAnalysis after the models are known to be
\* loaded.  d is what the two detectors see in the image:
\*   d.faces      FaceDetector found at least one face
\*   d.bbox       bounding box of the first detection, in pixels
\*   d.n          number of landmarks of the first face, -1 when the
\*                landmarker returns no face
\*   d.lm         placement of those landmarks
\*   d.fails      a detect call throws (the catch block rethrows)
DetectFace(d) ==
  IF d.fails THEN Thrown("detect")
  ELSE IF ~d.faces
    THEN [detected |-> FALSE, boundingBox |-> NoValue, skinRegions |-> NoValue]
    ELSE [detected |-> TRUE,
          boundingBox |-> d.bbox,
          skinRegions |-> IF d.n >= 0 THEN extractSkinRegions(d.lm, d.n)
                                      ELSE NoValue]

----------------------------------------------------------------------------
(* HeatmapGallery: region estimator                                        *)

\* ensureAnalysisCached: the pixel bounding box divided by the natural size
NormalizeFaceBox(face, natW, natH) ==
  IF face.boundingBox = NoValue
    THEN NoValue
    ELSE Box((face.boundingBox.x * UNIT) \div natW,
             (face.boundingBox.y * UNIT) \div natH,
             (face.boundingBox.width * UNIT) \div natW,
             (face.boundingBox.height * UNIT) \div natH)

DefaultFaceBox == Box(2000, 1000, 6000, 8000)

\* estimateRegions with the forehead as wide as the face but still inset
estimateRegions_WideForehead(skinRegions, faceBox) ==
  IF skinRegions # NoValue THEN skinRegions
  ELSE
    LET fb == IF faceBox # NoValue THEN faceBox ELSE DefaultFaceBox
        fx == fb.x
        fy == fb.y
        fw == fb.width
        fh == fb.height
    IN  [forehead   |-> Box(fx + Pct(fw, 5),  fy + Pct(fh, 2),  Pct(fw, 100), Pct(fh, 22)),
         leftCheek  |-> Box(fx + Pct(fw, 5),  fy + Pct(fh, 38), Pct(fw, 35), Pct(fh, 28)),
         rightCheek |-> Box(fx + Pct(fw, 60), fy + Pct(fh, 38), Pct(fw, 35), Pct(fh, 28)),
         nose       |-> Box(fx + Pct(fw, 42), fy + Pct(fh, 30), Pct(fw, 16), Pct(fh, 28)),
         chin       |-> Box(fx + Pct(fw, 25), fy + Pct(fh, 70), Pct(fw, 50), Pct(fh, 20))]

estimateRegions(skinRegions, faceBox) ==
  IF skinRegions # NoValue THEN skinRegions
  ELSE
    LET fb == IF faceBox # NoValue THEN faceBox ELSE DefaultFaceBox
        fx == fb.x
        fy == fb.y
        fw == fb.width
        fh == fb.height
    IN  [forehead   |-> Box(fx + Pct(fw, 5),  fy + Pct(fh, 2),  Pct(fw, 90), Pct(fh, 22)),
         leftCheek  |-> Box(fx + Pct(fw, 5),  fy + Pct(fh, 38), Pct(fw, 35), Pct(fh, 28)),
         rightCheek |-> Box(fx + Pct(fw, 60), fy + Pct(fh, 38), Pct(fw, 35), Pct(fh, 28)),
         nose       |-> Box(fx + Pct(fw, 42), fy + Pct(fh, 30), Pct(fw, 16), Pct(fh, 28)),
         chin       |-> Box(fx + Pct(fw, 25), fy + Pct(fh, 70), Pct(fw, 50), Pct(fh, 20))]

\* lines 273-289 of ensureAnalysisCached as one function of the face result
RegionsOfFace(face, natW, natH) ==
  estimateRegions(face.skinRegions, NormalizeFaceBox(face, natW, natH))

\* the Box invariant of the data model
ValidBox(b) ==
  /\ b.x >= 0 /\ b.y >= 0 /\ b.width >= 0 /\ b.height >= 0
  /\ b.x + b.width <= UNIT
  /\ b.y + b.height <= UNIT

IsRegionBoxes(r) == r # NoValue /\ DOMAIN r = RegionNames


----------------------------------------------------------------------------
(* SpecRegions: the region estimator applied to every detector outcome of  *)
(* a bounded family.                                                       *)

\* natural image sizes (square) and pixel bounding boxes of the detector;
\* a face partly outside the frame has a negative origin or an extent
\* beyond the image
NatSizes == {4, 10}
PxOrigins == {-2, 0, 2, 5}
PxSizes == {0, 4, 5, 8, 10}
LandmarkCounts == {-1, 0, 467, 468, 478}
LandmarkPlacements ==
  {[ox |-> 1000, oy |-> 500, sx |-> 100, sy |-> 150],
   [ox |-> 0, oy |-> 0, sx |-> 250, sy |-> 238]}

NoLandmarks == [ox |-> 0, oy |-> 0, sx |-> 0, sy |-> 0]

Detections ==
  {[fails |-> TRUE, faces |-> FALSE, bbox |-> NoValue, n |-> -1, lm |-> NoLandmarks],
   [fails |-> FALSE, faces |-> FALSE, bbox |-> NoValue, n |-> -1, lm |-> NoLandmarks]}
  \cup
  {[fails |-> FALSE, faces |-> TRUE, bbox |-> Box(x, y, w, h), n |-> n,
    lm |-> IF n > 0 THEN lm ELSE NoLandmarks] :
      x \in PxOrigins, y \in PxOrigins, w \in PxSizes, h \in PxSizes,
      n \in LandmarkCounts, lm \in LandmarkPlacements}

RgInit ==
  /\ rgIn \in [d : Detections, nat : NatSizes]
  /\ rgOut = NoValue

\* the region computation of ensureAnalysisCached: the try block when the
\* face analysis returns, the catch block when it throws
RgEstimate ==
  /\ rgOut = NoValue
  /\ LET face == DetectFace(rgIn.d)
     IN  rgOut' = IF IsThrown(face)
                    THEN estimateRegions(NoValue, NoValue)
                    ELSE RegionsOfFace(face, rgIn.nat, rgIn.nat)
  /\ UNCHANGED rgIn


----------------------------------------------------------------------------
(* HeatmapGallery: colour classifiers                                      *)

\* Fixed point scale of intensities and grid values: 1.0 is ONE.
ONE == 1000

\* Grid resolution.  The source fixes 64 x 64; the same code is run here on
\* a coarser grid so that images both smaller and larger than the grid are
\* within reach.
GRID_W == 4
GRID_H == 4

\* clamp01 that clamps nothing
clamp01_Identity(v) == v

clamp01(v) == Max2(0, Min2(ONE, v))

\* the JavaScript remainder a % b: the sign follows the dividend
JsRem(a, b) == IF a >= 0 THEN a % b ELSE 0 - ((0 - a) % b)

\* h in 1/1000 degree, s and v in 1/ONE.  max, min and d are kept times 255.
rgb2hsv(r, g, b) ==
  LET max == Max2(r, Max2(g, b))
      min == Min2(r, Min2(g, b))
      d == max - min
      sextant == IF max = r THEN JsRem((1000 * (g - b)) \div d, 6000)
                 ELSE IF max = g THEN (1000 * (b - r)) \div d + 2000
                 ELSE (1000 * (r - g)) \div d + 4000
      h60 == sextant * 60
  IN  [h |-> IF d = 0 THEN 0 ELSE IF h60 < 0 THEN h60 + 360000 ELSE h60,
       s |-> IF max = 0 THEN 0 ELSE (d * ONE) \div max,
       v |-> (max * ONE) \div 255]

RednessIntensity_HueOnly(px) ==
  LET hsv == rgb2hsv(px.r, px.g, px.b)
  IN  clamp01(Max2(0, ONE - (Min2(Abs(hsv.h), Abs(360000 - hsv.h)) * ONE) \div 40000))

\* the per-pixel redness heuristic of computeRednessGrid
RednessIntensity(px) ==
  LET hsv == rgb2hsv(px.r, px.g, px.b)
      hueScore == Max2(0, ONE - (Min2(Abs(hsv.h), Abs(360000 - hsv.h)) * ONE) \div 40000)
      sScore == hsv.s
      vScore == clamp01(ONE - (Abs(hsv.v - 700) * ONE) \div 700)
  IN  clamp01((hueScore * 6 + sScore * 3 + vScore * 1) \div 10)

\* the per-pixel dark-spot heuristic of computePigmentationGrid
PigmentIntensity(px) ==
  LET L == (2126 * px.r + 7152 * px.g + 722 * px.b) \div 2550
  IN  clamp01(((600 - L) * 12) \div 10)

Intensity(metric, px) ==
  IF metric = "redness" THEN RednessIntensity(px) ELSE PigmentIntensity(px)

----------------------------------------------------------------------------
(* HeatmapGallery: grid aggregator                                         *)

\* Images are described by their natural size and a seed; the pixel at
\* (x, y) is Pixel(img, x, y).
Palette ==
  << [r |-> 255, g |-> 0,   b |-> 0],
     [r |-> 10,  g |-> 10,  b |-> 10],
     [r |-> 224, g |-> 172, b |-> 150],
     [r |-> 178, g |-> 0,   b |-> 40],
     [r |-> 255, g |-> 255, b |-> 255],
     [r |-> 0,   g |-> 200, b |-> 30],
     [r |-> 90,  g |-> 60,  b |-> 200] >>

Pixel(img, x, y) == Palette[((x * 3 + y * 5 + img.seed) % Len(Palette)) + 1]

\* the result of a division by zero (0/0) in the source arithmetic
NaN == 0 - 1

JsDiv(a, b) == IF b = 0 THEN NaN ELSE a \div b

\* regionMask: the indices of the Uint8Array that end up 1.  A write at an
\* index outside the array is ignored.
regionMask(regions, w, h) ==
  UNION { LET b == regions[name]
              x0 == (b.x * w) \div UNIT
              y0 == (b.y * h) \div UNIT
              x1 == Min2(w, ((b.x + b.width) * w) \div UNIT)
              y1 == Min2(h, ((b.y + b.height) * h) \div UNIT)
          IN  {y * w + x : x \in x0..(x1 - 1), y \in y0..(y1 - 1)}
                \cap (0..(w * h - 1))
        : name \in RegionNames }

\* Math.floor((g / gridDim) * imageDim): the first pixel of cell g
CellStart(g, gridDim, imageDim) == (g * imageDim) \div gridDim

CellEnd_SkipLast(g, gridDim, imageDim) ==
  Min2(imageDim, ((g + 1) * imageDim) \div gridDim) - 1

\* Math.min(imageDim, Math.floor(((g + 1) / gridDim) * imageDim)): the pixel
\* after the last one of cell g
CellEnd(g, gridDim, imageDim) == Min2(imageDim, ((g + 1) * imageDim) \div gridDim)

\* the pixels of grid cell (gx, gy) that the mask selects, as indices
\* y * w + x of the pixel array
CellPixels(mask, w, h, gx, gy) ==
  LET x0 == CellStart(gx, GRID_W, w)
      y0 == CellStart(gy, GRID_H, h)
      x1 == CellEnd(gx, GRID_W, w)
      y1 == CellEnd(gy, GRID_H, h)
  IN  {y * w + x : x \in x0..(x1 - 1), y \in y0..(y1 - 1)} \cap mask

\* sum += intensity over the pixels ps, visited in index order from i on
RECURSIVE SumOver(_, _, _, _)
SumOver(img, metric, ps, i) ==
  IF \A q \in ps : q < i THEN 0
  ELSE IF i \in ps
    THEN Intensity(metric, Pixel(img, i % img.w, i \div img.w))
           + SumOver(img, metric, ps, i + 1)
    ELSE SumOver(img, metric, ps, i + 1)

\* the average without the count > 0 test
CellAverage_NoGuard(sum, count) == JsDiv(sum, count)

\* grid[gy][gx] = count > 0 ? sum / count : 0
CellAverage(sum, count) == IF count > 0 THEN JsDiv(sum, count) ELSE 0

\* one cell of the grid before smoothing, from its masked pixels ps
CellValue(img, metric, ps) ==
  CellAverage(IF ps = {} THEN 0 ELSE SumOver(img, metric, ps, SetMin(ps)),
              Cardinality(ps))

\* the double loop over the cells, for a mask already built
AggregateCells(img, mask, metric) ==
  [gy \in 0..(GRID_H - 1) |->
    [gx \in 0..(GRID_W - 1) |->
      CellValue(img, metric, CellPixels(mask, img.w, img.h, gx, gy))]]

\* the grid before smoothing, rows and columns indexed from 0
RawGrid(img, regions, metric) ==
  AggregateCells(img, regionMask(regions, img.w, img.h), metric)

\* kernel weights in 1/KDEN
KDEN == 100
Kernel_HeavyCentre == << <<5, 10, 5>>, <<10, 50, 10>>, <<5, 10, 5>> >>
Kernel == << <<5, 10, 5>>, <<10, 40, 10>>, <<5, 10, 5>> >>

\* the loops of smoothGrid: every interior cell from the copy, in place
SmoothPass(grid) ==
  LET h == Cardinality(DOMAIN grid)
      w == Cardinality(DOMAIN grid[0])
      acc(y, x) ==
        LET t(ky, kx) == grid[y + ky][x + kx] * Kernel[ky + 2][kx + 2]
        IN  t(-1, -1) + t(-1, 0) + t(-1, 1)
          + t(0, -1)  + t(0, 0)  + t(0, 1)
          + t(1, -1)  + t(1, 0)  + t(1, 1)
  IN  [y \in 0..(h - 1) |->
        [x \in 0..(w - 1) |->
          IF y >= 1 /\ y < h - 1 /\ x >= 1 /\ x < w - 1
            THEN acc(y, x) \div KDEN
            ELSE grid[y][x]]]

smoothGrid_TwoPasses(grid) == SmoothPass(SmoothPass(grid))

\* smoothGrid: one pass, reading the copy taken before the pass
smoothGrid(grid) == SmoothPass(grid)

HeatGrid(grid) == [width |-> GRID_W, height |-> GRID_H, grid |-> grid]

\* computeRednessGrid / computePigmentationGrid.  getImageData on a canvas
\* of zero width or height throws.
computeGrid(img, regions, metric) ==
  IF img.w = 0 \/ img.h = 0
    THEN Thrown("IndexSizeError")
    ELSE HeatGrid(smoothGrid(RawGrid(img, regions, metric)))

computeRednessGrid(img, regions) == computeGrid(img, regions, "redness")
computePigmentationGrid(img, regions) == computeGrid(img, regions, "pigmentation")


----------------------------------------------------------------------------
(* SpecGrid: the grid computations applied to a bounded family of images   *)
(* and region sets, and smoothGrid applied to a bounded family of grids.   *)

ImgSizes == {0, 1, 3, 4, 9}
ImgSeeds == 0..2
Metrics == {"redness", "pigmentation"}

GridImages == [w : ImgSizes, h : ImgSizes, seed : ImgSeeds]

GridRegions ==
  { estimateRegions(NoValue, NoValue),
    estimateRegions(NoValue, Box(0, 0, UNIT, UNIT)),
    estimateRegions(NoValue, Box(-2000, -2000, 8000, 10000)),
    estimateRegions(NoValue, Box(5000, 5000, 0, 0)),
    extractSkinRegions([ox |-> 0, oy |-> 0, sx |-> 250, sy |-> 238], MinLandmarks) }

Levels == <<ONE, 0, 500>>

SynthGrid(a, b, c, m) ==
  [y \in 0..(GRID_H - 1) |->
    [x \in 0..(GRID_W - 1) |-> Levels[((a * x + b * y + c) % m) + 1]]]

SynthGrids == {SynthGrid(a, b, c, m) : a \in 0..2, b \in 0..2, c \in 0..2, m \in 2..3}

GdInit ==
  /\ gdIn \in [kind : {"image"}, img : GridImages, regions : GridRegions, metric : Metrics]
              \cup [kind : {"grid"}, grid : SynthGrids]
  /\ gdRaw = NoValue
  /\ gdOut = NoValue

\* one call of computeRednessGrid or computePigmentationGrid
GdCompute ==
  /\ gdIn.kind = "image"
  /\ gdOut = NoValue
  /\ gdOut' = computeGrid(gdIn.img, gdIn.regions, gdIn.metric)
  /\ gdRaw' = IF gdIn.img.w = 0 \/ gdIn.img.h = 0
                THEN NoValue
                ELSE [grid |-> RawGrid(gdIn.img, gdIn.regions, gdIn.metric)]
  /\ UNCHANGED gdIn

\* one call of smoothGrid
GdSmooth ==
  /\ gdIn.kind = "grid"
  /\ gdOut = NoValue
  /\ gdRaw' = [grid |-> gdIn.grid]
  /\ gdOut' = HeatGrid(smoothGrid(gdIn.grid))
  /\ UNCHANGED gdIn

----------------------------------------------------------------------------
(* utils/faceDetection.ts: the model singleton                             *)
(*                                                                         *)
(* JavaScript runs each stretch of code between two awaits atomically, so  *)
(* every action below is one such stretch.  A call chain is a top-level    *)
(* asynchronous call together with the calls it awaits.                    *)

\* Bounds of the concurrency model
NumRedrawTasks == 2    \* redraw() invocations in one behaviour
NumInitCallers == 1    \* components calling initializeFaceDetection on mount
MaxCleanups == 1       \* calls of cleanupFaceDetection in one behaviour

\* Call chains are numbered in the order in which they start.
RedrawTasks == 1..NumRedrawTasks
InitTasks == (NumRedrawTasks + 1)..(NumRedrawTasks + NumInitCallers)
Tasks == RedrawTasks \cup InitTasks

NoModel == "null"

StartsNext(t, group) == pc[t] = "idle" /\ \A u \in group : u < t => pc[u] # "idle"

FdInit ==
  /\ faceDetector = NoModel
  /\ faceLandmarker = NoModel
  /\ isInitialized = FALSE
  /\ detectorsCreated = 0
  /\ landmarkersCreated = 0
  /\ cleanups = 0

\* initializeFaceDetection up to its first await: returns true at once when
\* isInitialized, otherwise starts loading (FilesetResolver.forVisionTasks)
InitCall(t) ==
  /\ IF isInitialized
       THEN /\ pc' = [pc EXCEPT ![t] = "initReturned"]
            /\ initRet' = [initRet EXCEPT ![t] = TRUE]
       ELSE /\ pc' = [pc EXCEPT ![t] = "awaitDetector"]
            /\ initRet' = [initRet EXCEPT ![t] = FALSE]

\* FilesetResolver.forVisionTasks and then FaceDetector.createFromOptions
\* settle (the first await changes and reads no state): faceDetector is
\* assigned and FaceLandmarker.createFromOptions is started, or one of the
\* two rejected and the catch block returns false
InitDetector(t, ok) ==
  /\ pc[t] = "awaitDetector"
  /\ IF ok
       THEN /\ faceDetector' = "FaceDetector"
            /\ detectorsCreated' = detectorsCreated + 1
            /\ pc' = [pc EXCEPT ![t] = "awaitLandmarker"]
       ELSE /\ pc' = [pc EXCEPT ![t] = "initReturned"]
            /\ UNCHANGED <<faceDetector, detectorsCreated>>
  /\ UNCHANGED <<faceLandmarker, isInitialized, landmarkersCreated, cleanups,
                 inVars, cache, faceResult, initRet, countVars, scVars>>

\* FaceLandmarker.createFromOptions settles: faceLandmarker is assigned,
\* isInitialized set and true returned, or the catch returns false
InitLandmarker(t, ok) ==
  /\ pc[t] = "awaitLandmarker"
  /\ pc' = [pc EXCEPT ![t] = "initReturned"]
  /\ IF ok
       THEN /\ faceLandmarker' = "FaceLandmarker"
            /\ landmarkersCreated' = landmarkersCreated + 1
            /\ isInitialized' = TRUE
            /\ initRet' = [initRet EXCEPT ![t] = TRUE]
       ELSE UNCHANGED <<faceLandmarker, landmarkersCreated,
                        isInitialized, initRet>>
  /\ UNCHANGED <<faceDetector, detectorsCreated, cleanups,
                 inVars, cache, faceResult, countVars, scVars>>

cleanupFaceDetection ==
  /\ cleanups < MaxCleanups
  /\ cleanups' = cleanups + 1
  /\ faceDetector' = NoModel
  /\ faceLandmarker' = NoModel
  /\ isInitialized' = FALSE
  /\ detectorsCreated' = 0
  /\ landmarkersCreated' = 0
  /\ UNCHANGED hgVars

\* analyzeFaceForSkinAnalysis once initialization is behind it
AnalyzeWithModels ==
  IF faceDetector = NoModel \/ faceLandmarker = NoModel
    THEN Thrown("Face detection models not initialized")
    ELSE DetectFace(scene)

----------------------------------------------------------------------------
(* EnhancedScanner / CameraWithGuidance: initializeFaceDetectionModel      *)

ScannerInitStart(t) ==
  /\ StartsNext(t, InitTasks)
  /\ InitCall(t)
  /\ UNCHANGED <<fdVars, inVars, cache, faceResult, countVars, scVars>>

ScannerInitDone(t) ==
  /\ pc[t] = "initReturned"
  /\ pc' = [pc EXCEPT ![t] = "done"]
  /\ initRet' = [initRet EXCEPT ![t] = FALSE]
  /\ IF initRet[t]
       THEN faceDetectionReady' = TRUE /\ UNCHANGED scannerError
       ELSE scannerError' = "Face detection initialization failed"
            /\ UNCHANGED faceDetectionReady
  /\ UNCHANGED <<fdVars, inVars, cache, faceResult, countVars>>

----------------------------------------------------------------------------
(* HeatmapGallery: the analysis cache and the redraw effect                *)

ImageKey(img) == <<img.seed, img.w, img.h>>

CacheEntry(faceBox, regions, rednessGrid, pigmentGrid) ==
  [faceBox |-> faceBox, regions |-> regions,
   rednessGrid |-> rednessGrid, pigmentGrid |-> pigmentGrid]

\* regions, grids and cache.set in sequence (lines 289-295 and 298-301):
\* the entry stored, or the error the first failing grid computation throws
EntryOrThrow(faceBox, regions, rednessGrid, pigmentGrid) ==
  IF IsThrown(rednessGrid) THEN rednessGrid
  ELSE IF IsThrown(pigmentGrid) THEN pigmentGrid
  ELSE CacheEntry(faceBox, regions, rednessGrid, pigmentGrid)

EntryFor(img, faceBox, regions) ==
  EntryOrThrow(faceBox, regions,
               computeRednessGrid(img, regions),
               computePigmentationGrid(img, regions))

\* the try block of ensureAnalysisCached once the face analysis returned f
EnsureTry(f, img) ==
  EntryFor(img,
           IF img.w = 0 \/ img.h = 0 THEN NoValue ELSE NormalizeFaceBox(f, img.w, img.h),
           IF img.w = 0 \/ img.h = 0 THEN NoValue ELSE RegionsOfFace(f, img.w, img.h))

\* the catch block of ensureAnalysisCached
EnsureCatch(img) == EntryFor(img, NoValue, estimateRegions(NoValue, NoValue))

\* what the try block did, or what the catch block does when it threw
CatchOf(tried, img) == IF IsThrown(tried) THEN EnsureCatch(img) ELSE tried

\* ensureAnalysisCached without its catch block
EnsureSettled_NoCatch(f, img) ==
  IF IsThrown(f) THEN f ELSE EnsureTry(f, img)

\* ensureAnalysisCached from the point where analyzeFaceForSkinAnalysis has
\* settled with f: the entry handed to cache.set, or the error the call
\* rejects with
EnsureSettled(f, img) ==
  IF IsThrown(f) THEN EnsureCatch(img) ELSE CatchOf(EnsureTry(f, img), img)

\* the images shown in the gallery and what the detectors see in them
NoFaceScene ==
  [fails |-> FALSE, faces |-> FALSE, bbox |-> NoValue, n |-> -1, lm |-> NoLandmarks]
SomeLandmarks == [ox |-> 1000, oy |-> 500, sx |-> 100, sy |-> 150]

GalleryInputs ==
  {[image |-> [w |-> 0, h |-> 4, seed |-> 0], scene |-> NoFaceScene],
   [image |-> [w |-> 5, h |-> 4, seed |-> 2], scene |-> NoFaceScene],
   [image |-> [w |-> 5, h |-> 4, seed |-> 2],
    scene |-> [fails |-> TRUE, faces |-> FALSE, bbox |-> NoValue, n |-> -1,
               lm |-> NoLandmarks]],
   [image |-> [w |-> 5, h |-> 4, seed |-> 2],
    scene |-> [fails |-> FALSE, faces |-> TRUE, bbox |-> Box(1, 0, 3, 4), n |-> 467,
               lm |-> SomeLandmarks]],
   [image |-> [w |-> 5, h |-> 4, seed |-> 2],
    scene |-> [fails |-> FALSE, faces |-> TRUE, bbox |-> Box(1, 0, 3, 4), n |-> 478,
               lm |-> SomeLandmarks]]}

HgIdle ==
  /\ image = NoValue
  /\ scene = NoValue
  /\ cache = <<>>
  /\ pc = [t \in Tasks |-> "idle"]
  /\ faceResult = [t \in Tasks |-> NoValue]
  /\ initRet = [t \in Tasks |-> FALSE]
  /\ faceAnalyses = 0
  /\ rednessComputations = 0
  /\ pigmentComputations = 0
  /\ cacheSets = 0
  /\ faceDetectionReady = FALSE
  /\ scannerError = ""

HgInit ==
  /\ \E in \in GalleryInputs : image = in.image /\ scene = in.scene
  /\ cache = <<>>
  /\ pc = [t \in Tasks |-> "idle"]
  /\ faceResult = [t \in Tasks |-> NoValue]
  /\ initRet = [t \in Tasks |-> FALSE]
  /\ faceAnalyses = 0
  /\ rednessComputations = 0
  /\ pigmentComputations = 0
  /\ cacheSets = 0
  /\ faceDetectionReady = FALSE
  /\ scannerError = ""

\* redraw() while the component has no image: returns at once
RedrawNoImage(t) ==
  /\ StartsNext(t, RedrawTasks)
  /\ pc' = [pc EXCEPT ![t] = "done"]
  /\ UNCHANGED <<fdVars, inVars, cache, faceResult, initRet, countVars, scVars>>

\* redraw() with an image, up to its first suspension: ensureAnalysisCached
\* returns when the key is cached, otherwise calls
\* analyzeFaceForSkinAnalysis, which calls initializeFaceDetection unless
\* the models are there
RedrawStart(t) ==
  /\ StartsNext(t, RedrawTasks)
  /\ IF ImageKey(image) \in DOMAIN cache
       THEN /\ pc' = [pc EXCEPT ![t] = "ensured"]
            /\ UNCHANGED <<faceResult, initRet, faceAnalyses>>
       ELSE /\ faceAnalyses' = faceAnalyses + 1
            /\ IF ~isInitialized \/ faceDetector = NoModel \/ faceLandmarker = NoModel
                 THEN InitCall(t) /\ UNCHANGED faceResult
                 ELSE /\ faceResult' = [faceResult EXCEPT ![t] = AnalyzeWithModels]
                      /\ pc' = [pc EXCEPT ![t] = "awaitFace"]
                      /\ UNCHANGED initRet
  /\ UNCHANGED <<fdVars, inVars, cache, rednessComputations,
                 pigmentComputations, cacheSets, scVars>>

\* analyzeFaceForSkinAnalysis resumes after initializeFaceDetection
AnalyzeAfterInit(t) ==
  /\ pc[t] = "initReturned"
  /\ faceResult' = [faceResult EXCEPT ![t] = AnalyzeWithModels]
  /\ initRet' = [initRet EXCEPT ![t] = FALSE]
  /\ pc' = [pc EXCEPT ![t] = "awaitFace"]
  /\ UNCHANGED <<fdVars, inVars, cache, countVars, scVars>>

\* calls of computeRednessGrid / computePigmentationGrid made by
\* ensureAnalysisCached once the face analysis has settled with f
RednessCalls(f, img) ==
  IF IsThrown(f) THEN 1
  ELSE IF img.w = 0 \/ img.h = 0 THEN 2 ELSE 1
PigmentCalls(f, img) == IF img.w = 0 \/ img.h = 0 THEN 0 ELSE 1

\* ensureAnalysisCached resumes with the settled face analysis
EnsureComplete(t) ==
  /\ pc[t] = "awaitFace"
  /\ \E r \in {EnsureSettled(faceResult[t], image)} :
         IF IsThrown(r)
           THEN /\ pc' = [pc EXCEPT ![t] = "rejected"]
                /\ faceResult' = [faceResult EXCEPT ![t] = r]
                /\ UNCHANGED <<cache, cacheSets>>
           ELSE /\ pc' = [pc EXCEPT ![t] = "ensured"]
                /\ cache' = [k \in DOMAIN cache \cup {ImageKey(image)} |->
                               IF k = ImageKey(image) THEN r ELSE cache[k]]
                /\ cacheSets' = cacheSets + 1
                /\ UNCHANGED faceResult
  /\ rednessComputations' = rednessComputations + RednessCalls(faceResult[t], image)
  /\ pigmentComputations' = pigmentComputations + PigmentCalls(faceResult[t], image)
  /\ UNCHANGED <<fdVars, inVars, initRet, faceAnalyses, scVars>>

\* redraw() resumes after ensureAnalysisCached: reads the entry and draws
RedrawFinish(t) ==
  /\ pc[t] = "ensured"
  /\ pc' = [pc EXCEPT ![t] = "done"]
  /\ faceResult' = [faceResult EXCEPT ![t] = NoValue]
  /\ UNCHANGED <<fdVars, inVars, cache, initRet, countVars, scVars>>


----------------------------------------------------------------------------
(* Math.random                                                             *)

\* Math.random is the engine's pseudo random generator: a hidden state,
\* seeded outside the program, which every call advances.  It is modelled as
\* an additive generator over RngMod states; a call returns state / RngMod,
\* a value of [0, 1) in units of 1/ONE.
RngMod == 16
RngStep == 7

\* the state after k calls made from state s
RngAfter(s, k) == (s + k * RngStep) % RngMod

\* the value returned by call number k (from 0) made from state s
MathRandom(s, k) == (RngAfter(s, k) * ONE) \div RngMod

\* Math.random() * (mul / 10) + add
Scaled(r, mul, add) == (r * mul) \div 10 + add

----------------------------------------------------------------------------
(* EnhancedScanner: the local analysis                                     *)

HEAT_W == 32
HEAT_H == 24

RECURSIVE ISqrtIn(_, _, _)
ISqrtIn(n, lo, hi) ==
  IF lo >= hi THEN lo
  ELSE LET mid == (lo + hi + 1) \div 2
       IN  IF mid * mid <= n THEN ISqrtIn(n, mid, hi) ELSE ISqrtIn(n, lo, mid - 1)

\* distance / maxDistance of cell (x, y) from the centre, in 1/ONE
NormalizedDistance(x, y) ==
  LET a == (2 * x - HEAT_W) * (2 * x - HEAT_W) + (2 * y - HEAT_H) * (2 * y - HEAT_H)
      b == HEAT_W * HEAT_W + HEAT_H * HEAT_H
  IN  ISqrtIn((a * ONE * ONE) \div b, 0, 2 * ONE)

\* the zone of the cell picks the range of the random intensity
HeatIntensity(x, y, r) ==
  IF 10 * y < 4 * HEAT_H THEN Scaled(r, 6, 200)
  ELSE IF 10 * y > 6 * HEAT_H /\ 10 * x > 3 * HEAT_W /\ 10 * x < 7 * HEAT_W
       THEN Scaled(r, 4, 100)
  ELSE IF 10 * x < 3 * HEAT_W \/ 10 * x > 7 * HEAT_W THEN Scaled(r, 7, 100)
  ELSE Scaled(r, 8, 100)

HeatCell(x, y, r) ==
  Max2(0, Min2(ONE, (HeatIntensity(x, y, r)
                       * (ONE - (NormalizedDistance(x, y) * 3) \div 10)) \div ONE))

\* generateHeatMap called with the generator in state s: one draw per cell,
\* row by row
generateHeatMap(s) ==
  [grid   |-> [y \in 0..(HEAT_H - 1) |->
                 [x \in 0..(HEAT_W - 1) |-> HeatCell(x, y, MathRandom(s, y * HEAT_W + x))]],
   width  |-> HEAT_W,
   height |-> HEAT_H]

HeatMapDraws == HEAT_W * HEAT_H

MetricOrder == <<"acne", "redness", "oiliness", "dryness", "pores", "darkSpots">>
RegionOrder == <<"forehead", "leftCheek", "rightCheek", "nose", "chin">>

\* the factor of each metric, in tenths
LocalMetricScale ==
  [acne |-> 3, redness |-> 4, oiliness |-> 6, dryness |-> 3, pores |-> 5, darkSpots |-> 2]
UploadMetricScale ==
  [acne |-> 4, redness |-> 5, oiliness |-> 6, dryness |-> 3, pores |-> 5, darkSpots |-> 3]

MockMetrics(s, scale) ==
  [m \in {MetricOrder[i] : i \in DOMAIN MetricOrder} |->
     LET i == CHOOSE j \in DOMAIN MetricOrder : MetricOrder[j] = m
     IN  Scaled(MathRandom(s, i - 1), scale[m], 0)]

\* region scores drawn after the metrics; a region draws only when present
MockRegionScores(s, present) ==
  [n \in RegionNames |->
     LET i == CHOOSE j \in DOMAIN RegionOrder : RegionOrder[j] = n
     IN  IF present THEN Scaled(MathRandom(s, Len(MetricOrder) + i - 1), 8, 200)
         ELSE NoValue]

RegionDraws(present) == IF present THEN Len(RegionOrder) ELSE 0

\* the mockAnalysis of performLocalAnalysis, built with the generator in state s
LocalMockAnalysis(s, faceRes, heat) ==
  LET present == faceRes.skinRegions # NoValue
      drawn == Len(MetricOrder) + RegionDraws(present)
  IN  [metrics      |-> MockMetrics(s, LocalMetricScale),
       regionScores |-> MockRegionScores(s, present),
       confidence   |-> IF faceRes.confidence = 0 THEN 800 ELSE faceRes.confidence,
       heat         |-> IF heat THEN generateHeatMap(RngAfter(s, drawn)) ELSE NoValue]

LocalDraws(faceRes, heat) ==
  Len(MetricOrder) + RegionDraws(faceRes.skinRegions # NoValue)
    + (IF heat THEN HeatMapDraws ELSE 0)

\* the mockResult of img.onload in handleFileUpload
UploadMockResult(s, heat) ==
  [metrics      |-> MockMetrics(s, UploadMetricScale),
   regionScores |-> MockRegionScores(s, TRUE),
   confidence   |-> 850,
   heat         |-> IF heat
                    THEN generateHeatMap(RngAfter(s, Len(MetricOrder) + Len(RegionOrder)))
                    ELSE NoValue]

UploadDraws(heat) ==
  Len(MetricOrder) + Len(RegionOrder) + (IF heat THEN HeatMapDraws ELSE 0)

MaxRuns == 2

\* what the face tracker reports for the video frame
ScannerFaces ==
  {[detected |-> FALSE, confidence |-> 0, skinRegions |-> NoValue],
   [detected |-> TRUE, confidence |-> 900, skinRegions |-> NoValue],
   [detected |-> TRUE, confidence |-> 0,
    skinRegions |-> extractSkinRegions(SomeLandmarks, 478)],
   [detected |-> TRUE, confidence |-> 900,
    skinRegions |-> extractSkinRegions(SomeLandmarks, 478)]}

\* the files offered to the upload; ok says whether the browser can decode it
ScannerFiles ==
  {[name |-> "a.png", ok |-> TRUE], [name |-> "b.png", ok |-> TRUE],
   [name |-> "c.txt", ok |-> FALSE]}

LsIdle ==
  /\ rngState = 0
  /\ enableLocalAnalysis = FALSE
  /\ showHeatMap = FALSE
  /\ isAnalyzing = FALSE
  /\ analysisResult = NoValue
  /\ loading = FALSE
  /\ imgLoading = NoValue
  /\ uploadedImage = NoValue
  /\ delivered = <<>>

LsInit ==
  /\ rngState \in 0..(RngMod - 1)
  /\ enableLocalAnalysis \in BOOLEAN
  /\ showHeatMap \in BOOLEAN
  /\ isAnalyzing = FALSE
  /\ analysisResult = NoValue
  /\ loading = FALSE
  /\ imgLoading = NoValue
  /\ uploadedImage = NoValue
  /\ delivered = <<>>

\* performLocalAnalysis has no await: it runs to its end in one step, and
\* the finally clause resets isAnalyzing
performLocalAnalysis(faceRes) ==
  IF isAnalyzing
  THEN UNCHANGED <<rngState, isAnalyzing, analysisResult, delivered>>
  ELSE \E mock \in {LocalMockAnalysis(rngState, faceRes, showHeatMap)} :
         /\ rngState' = RngAfter(rngState, LocalDraws(faceRes, showHeatMap))
         /\ analysisResult' = mock
         /\ delivered' = Append(delivered,
                                [input |-> [via |-> "camera", face |-> faceRes],
                                 result |-> mock])
         /\ isAnalyzing' = FALSE

\* the onFaceUpdate callback handed to trackFaceInRealTime
OnFaceUpdate(faceRes) ==
  /\ Len(delivered) < MaxRuns
  /\ IF enableLocalAnalysis /\ faceRes.detected /\ faceRes.skinRegions # NoValue
     THEN performLocalAnalysis(faceRes)
     ELSE UNCHANGED <<rngState, isAnalyzing, analysisResult, delivered>>
  /\ UNCHANGED <<enableLocalAnalysis, showHeatMap, loading, imgLoading,
                 uploadedImage, scannerError>>

\* handleFileUpload up to img.src = imageUrl; ImageUpload is disabled while
\* loading.  URL.createObjectURL does not throw for a File.
handleFileUpload(file) ==
  /\ Len(delivered) < MaxRuns
  /\ ~loading
  /\ loading' = TRUE
  /\ scannerError' = ""
  /\ analysisResult' = NoValue
  /\ imgLoading' = file
  /\ UNCHANGED <<rngState, enableLocalAnalysis, showHeatMap, isAnalyzing,
                 uploadedImage, delivered>>

ImgOnload ==
  /\ imgLoading # NoValue
  /\ imgLoading.ok
  /\ uploadedImage' = imgLoading
  /\ IF enableLocalAnalysis
     THEN \E mock \in {UploadMockResult(rngState, showHeatMap)} :
            /\ rngState' = RngAfter(rngState, UploadDraws(showHeatMap))
            /\ analysisResult' = mock
            /\ delivered' = Append(delivered,
                                   [input |-> [via |-> "upload", file |-> imgLoading],
                                    result |-> mock])
     ELSE UNCHANGED <<rngState, analysisResult, delivered>>
  /\ loading' = FALSE
  /\ imgLoading' = NoValue
  /\ UNCHANGED <<enableLocalAnalysis, showHeatMap, isAnalyzing, scannerError>>

ImgOnerror ==
  /\ imgLoading # NoValue
  /\ ~imgLoading.ok
  /\ scannerError' = "Failed to load image"
  /\ loading' = FALSE
  /\ imgLoading' = NoValue
  /\ UNCHANGED <<rngState, enableLocalAnalysis, showHeatMap, isAnalyzing,
                 analysisResult, uploadedImage, delivered>>

----------------------------------------------------------------------------
(* pages/Analysis.tsx                                                      *)

\* Math.round(num / den) for den > 0: the nearest integer, ties upwards
MathRound(num, den) == (2 * num + den) \div (2 * den)

\* thresholds of determineSkinType and generateRecommendations, in 1/ONE
determineSkinType_DryFirst(metrics) ==
  IF metrics.dryness > 600 THEN "Dry"
  ELSE IF metrics.oiliness > 700 THEN "Oily"
  ELSE IF metrics.oiliness > 400 /\ metrics.dryness > 400 THEN "Combination"
  ELSE IF metrics.redness > 500 THEN "Sensitive"
  ELSE "Normal"

determineSkinType(metrics) ==
  IF metrics.oiliness > 700 THEN "Oily"
  ELSE IF metrics.dryness > 600 THEN "Dry"
  ELSE IF metrics.oiliness > 400 /\ metrics.dryness > 400 THEN "Combination"
  ELSE IF metrics.redness > 500 THEN "Sensitive"
  ELSE "Normal"

AcneAdvice ==
  <<"Use salicylic acid cleanser to help reduce acne",
    "Consider adding a retinoid to your routine">>
RednessAdvice ==
  <<"Use gentle, fragrance-free products",
    "Apply a soothing moisturizer with niacinamide">>
OilinessAdvice ==
  <<"Use clay masks 2-3 times per week",
    "Choose oil-free, non-comedogenic products">>
DrynessAdvice ==
  <<"Use a hydrating serum with hyaluronic acid",
    "Apply a rich moisturizer morning and night">>
DarkSpotsAdvice ==
  <<"Use vitamin C serum in the morning",
    "Always apply SPF 30+ sunscreen">>
HealthyAdvice ==
  <<"Your skin looks healthy! Maintain your current routine",
    "Continue with daily cleansing and moisturizing">>

generateRecommendations_AlwaysHealthy(metrics) ==
  (IF metrics.acne > 400 THEN AcneAdvice ELSE <<>>)
  \o (IF metrics.redness > 400 THEN RednessAdvice ELSE <<>>)
  \o (IF metrics.oiliness > 600 THEN OilinessAdvice ELSE <<>>)
  \o (IF metrics.dryness > 500 THEN DrynessAdvice ELSE <<>>)
  \o (IF metrics.darkSpots > 400 THEN DarkSpotsAdvice ELSE <<>>)
  \o HealthyAdvice

generateRecommendations(metrics) ==
  LET pushed ==
        (IF metrics.acne > 400 THEN AcneAdvice ELSE <<>>)
        \o (IF metrics.redness > 400 THEN RednessAdvice ELSE <<>>)
        \o (IF metrics.oiliness > 600 THEN OilinessAdvice ELSE <<>>)
        \o (IF metrics.dryness > 500 THEN DrynessAdvice ELSE <<>>)
        \o (IF metrics.darkSpots > 400 THEN DarkSpotsAdvice ELSE <<>>)
  IN  IF Len(pushed) = 0 THEN HealthyAdvice ELSE pushed

OverallScore_WithOiliness(metrics) ==
  MathRound((3 * ONE - metrics.acne - metrics.redness - metrics.oiliness) * 100, 3 * ONE)

\* Math.round((1 - (acne + redness) / 2) * 100)
OverallScore(metrics) ==
  MathRound((2 * ONE - metrics.acne - metrics.redness) * 100, 2 * ONE)

ToPercent_Unscaled(m) == MathRound(m, ONE)

\* Math.round(metric * 100)
ToPercent(m) == MathRound(m * 100, ONE)

\* convertedResult of handleLocalAnalysisResult.  The numbers of an
\* AnalysisResult are plain integers.
ConvertedResult(result) ==
  [overallScore    |-> OverallScore(result.metrics),
   acne            |-> ToPercent(result.metrics.acne),
   redness         |-> ToPercent(result.metrics.redness),
   oiliness        |-> ToPercent(result.metrics.oiliness),
   dryness         |-> ToPercent(result.metrics.dryness),
   pores           |-> ToPercent(result.metrics.pores),
   darkSpots       |-> ToPercent(result.metrics.darkSpots),
   skinType        |-> determineSkinType(result.metrics),
   recommendations |-> generateRecommendations(result.metrics),
   regionScores    |-> result.regionScores,
   confidence      |-> result.confidence,
   detections      |-> NoValue,
   imageSize       |-> NoValue]

\* mapped of performAnalysis: the fields of the response, as received
MappedResult(data) ==
  [overallScore    |-> data.overallScore,
   acne            |-> data.acne,
   redness         |-> data.redness,
   oiliness        |-> data.oiliness,
   dryness         |-> data.dryness,
   pores           |-> data.pores,
   darkSpots       |-> data.darkSpots,
   skinType        |-> data.skinType,
   recommendations |-> data.recommendations,
   regionScores    |-> data.regionScores,
   confidence      |-> data.confidence,
   detections      |-> data.detections,
   imageSize       |-> data.imageSize]

\* metric vectors handed over by the scanner, in 1/ONE, around every threshold
AcneLevels == {0, 400, 401, 1000}
RednessLevels == {100, 400, 401, 500, 501, 1000}
OilinessLevels == {300, 400, 401, 600, 601, 700, 701, 800}
DrynessLevels == {100, 400, 401, 500, 501, 600, 601, 900}
PoresLevels == {100, 500}
DarkSpotsLevels == {400, 401}

LocalMetrics ==
  [acne : AcneLevels, redness : RednessLevels, oiliness : OilinessLevels,
   dryness : DrynessLevels, pores : PoresLevels, darkSpots : DarkSpotsLevels]

LocalResults ==
  {[metrics |-> m, regionScores |-> MockRegionScores(0, TRUE), confidence |-> 850] :
     m \in LocalMetrics}

NumCaptures == 2
CapturedFiles == 1..NumCaptures

\* the body of a successful response of /routes/analyze_acne_roboflow for a
\* file; the backend is not part of the sources, its metrics are percentages
ServiceData(file) ==
  [overallScore |-> 70 + file, acne |-> 30 + file, redness |-> 20, oiliness |-> 45,
   dryness |-> 10, pores |-> 35, darkSpots |-> 5, skinType |-> "Normal",
   recommendations |-> <<"Gentle cleanser">>, regionScores |-> NoValue,
   confidence |-> 900,
   detections |-> <<[x |-> 10 * file, y |-> 12, width |-> 6, height |-> 6,
                     confidence |-> 800, class_name |-> "acne"]>>,
   imageSize |-> [width |-> 640, height |-> 480]]

\* what the fetch of a file's request can come to: a response with a JSON
\* body, a response whose body does not parse, a response with a non-OK
\* status, and a rejected fetch
ServiceResponses(file) ==
  {[ok |-> TRUE, data |-> ServiceData(file)],
   [ok |-> TRUE, data |-> Thrown("SyntaxError")],
   [ok |-> FALSE, data |-> NoValue],
   Thrown("TypeError: Failed to fetch")}

\* the try block of performAnalysis from the response on, up to
\* setAnalysisResult: the mapped result, or what is thrown
TryPerformAnalysis(response) ==
  IF IsThrown(response) THEN response
  ELSE IF ~response.ok THEN Thrown("status: message")
  ELSE IF IsThrown(response.data) THEN response.data
  ELSE MappedResult(response.data)

\* a finally clause that is skipped when the try block threw
AnalyzingAtReturn_OnlyOnSuccess(tried) == IsThrown(tried)

\* finally { setIsAnalyzing(false) }: isAnalyzing when performAnalysis returns
AnalyzingAtReturn(tried) == FALSE

AnIdle ==
  /\ localResult = NoValue
  /\ pageAnalysisResult = NoValue
  /\ resultFrom = "none"
  /\ pageIsAnalyzing = FALSE
  /\ inflight = {}
  /\ historySaved = <<>>
  /\ analyzedImage = 0
  /\ saving = {}
  /\ rejections = 0

AnInit ==
  /\ localResult \in LocalResults
  /\ pageAnalysisResult = NoValue
  /\ resultFrom = "none"
  /\ pageIsAnalyzing = FALSE
  /\ inflight = {}
  /\ historySaved = <<>>
  /\ analyzedImage = 0
  /\ saving = {}
  /\ rejections = 0

\* the scanner's onAnalysisResult callback
handleLocalAnalysisResult ==
  /\ pageAnalysisResult' = ConvertedResult(localResult)
  /\ resultFrom' = "local"
  /\ UNCHANGED <<localResult, pageIsAnalyzing, inflight, historySaved,
                 analyzedImage, saving, rejections>>

\* handleFileCapture, and performAnalysis up to the fetch.  Every capture
\* makes a new File; the files are numbered in the order of their capture.
handleFileCapture(file) ==
  /\ file = analyzedImage + 1
  /\ analyzedImage' = file
  /\ pageIsAnalyzing' = TRUE
  /\ inflight' = inflight \cup {file}
  /\ UNCHANGED <<localResult, pageAnalysisResult, resultFrom, historySaved,
                 saving, rejections>>

\* performAnalysis from the response of the fetch on: up to the call of
\* brain.save_analysis_history when the try block gets that far, to the end
\* of the catch and finally clauses when it throws
performAnalysisSettle(file, response) ==
  /\ file \in inflight
  /\ inflight' = inflight \ {file}
  /\ \E tried \in {TryPerformAnalysis(response)} :
       IF IsThrown(tried)
         THEN /\ pageIsAnalyzing' = AnalyzingAtReturn(tried)
              /\ UNCHANGED <<pageAnalysisResult, resultFrom, historySaved, saving>>
         ELSE /\ pageAnalysisResult' = tried
              /\ resultFrom' = "service"
              /\ historySaved' = Append(historySaved, tried)
              /\ saving' = saving \cup {file}
              /\ UNCHANGED pageIsAnalyzing
  /\ UNCHANGED <<localResult, analyzedImage, rejections>>

\* brain.save_analysis_history settles (saveToHistory catches a rejection):
\* performAnalysis runs its finally clause and returns
saveToHistorySettle(file) ==
  /\ file \in saving
  /\ saving' = saving \ {file}
  /\ pageIsAnalyzing' = AnalyzingAtReturn(pageAnalysisResult)
  /\ UNCHANGED <<localResult, pageAnalysisResult, resultFrom, inflight, historySaved,
                 analyzedImage, rejections>>

----------------------------------------------------------------------------
(* Canvas renderers: drawOiliness, drawAcne, DetectionsOverlay             *)

\* an optional number that is present
Opt(v) == [value |-> v]

\* x ?? dflt
Nullish(x, dflt) == IF x = NoValue THEN dflt ELSE x.value

\* clamp01((pct ?? dflt) / 100 * factor), factor in tenths
GlobalWeight(pct, dflt, factor) ==
  clamp01((Nullish(pct, dflt) * ONE * factor) \div (100 * 10))

\* scores?.region
ScoreOf(scores, region) == IF scores = NoValue THEN NoValue ELSE scores[region]

FallbackWeight(global, region) ==
  CASE region = "forehead" -> GlobalWeight(global.oilinessPct, 50, 10)
    [] region = "leftCheek" -> GlobalWeight(global.drynessPct, 40, 7)
    [] region = "rightCheek" -> GlobalWeight(global.drynessPct, 40, 7)
    [] region = "nose" -> GlobalWeight(global.oilinessPct, 50, 12)
    [] region = "chin" -> GlobalWeight(global.poresPct, 40, 9)

RegionWeights_AllOrNothing(scores, global) ==
  [n \in RegionNames |->
     IF \A r \in RegionNames : ScoreOf(scores, r) # NoValue
     THEN ScoreOf(scores, n).value
     ELSE FallbackWeight(global, n)]

\* weights of drawOiliness
RegionWeights(scores, global) ==
  [n \in RegionNames |-> Nullish(ScoreOf(scores, n), FallbackWeight(global, n))]

\* alpha * factor, both in 1/ONE
AlphaTimes(alpha, factor) == (alpha * factor) \div ONE

\* what drawOiliness paints: per region the weight handed to drawRegion, the
\* clamped weight that tints it and the alpha of the fill; and the alpha of
\* the pores tint, when it is painted
drawOiliness(canvas, scores, global, opacity) ==
  IF ~canvas THEN NoValue
  ELSE LET weights == RegionWeights(scores, global)
           pores == clamp01((Nullish(global.poresPct, 40) * ONE) \div 100)
       IN  [weights    |-> weights,
            tintWeight |-> [n \in RegionNames |-> clamp01(weights[n])],
            tintAlpha  |-> [n \in RegionNames |-> AlphaTimes(opacity, clamp01(weights[n]))],
            poresAlpha |-> IF pores > 400 THEN Opt(AlphaTimes(opacity, pores - 200))
                           ELSE NoValue]

ClampConfidence_Unit(c) == Max2(0, Min2(ONE, c))

\* Math.max(0.2, Math.min(1, d.confidence))
ClampConfidence(c) == Max2(200, Min2(ONE, c))

BoxMark(conf) ==
  [kind      |-> "box",
   conf      |-> conf,
   fillAlpha |-> (12 * conf) \div 100,
   label     |-> MathRound(conf * 100, ONE)]

HeatMark(conf, opacity) ==
  [kind      |-> "heat",
   conf      |-> conf,
   peakAlpha |-> AlphaTimes(opacity, conf),
   midAlpha  |-> (AlphaTimes(opacity, conf) * 4) \div 10]

\* what HeatmapGallery.drawAcne paints: one mark for each detection
drawAcne(canvas, dets, mode, opacity) ==
  IF ~canvas THEN NoValue
  ELSE IF mode = "boxes"
       THEN [marks |-> [i \in DOMAIN dets |-> BoxMark(clamp01(dets[i].confidence))]]
       ELSE [marks |-> [i \in DOMAIN dets |->
                          HeatMark(ClampConfidence(dets[i].confidence), opacity)]]

\* what the effect of DetectionsOverlay paints for each detection
DetectionsOverlay(canvas, imageSize, dets, mode, opacity) ==
  IF ~canvas \/ imageSize.width = 0 \/ imageSize.height = 0 THEN NoValue
  ELSE IF mode = "boxes"
       THEN [marks |-> [i \in DOMAIN dets |->
                          BoxMark(ClampConfidence(dets[i].confidence))]]
       ELSE [marks |-> [i \in DOMAIN dets |->
                          HeatMark(ClampConfidence(dets[i].confidence), opacity)]]

\* ---- inputs of the harness
ScoreLevels == {NoValue, Opt(0 - 200), Opt(650), Opt(1500)}
RegionScoreInputs == {NoValue} \cup [RegionNames -> ScoreLevels]
GlobalInputs ==
  [oilinessPct : {NoValue, Opt(0), Opt(70), Opt(90), Opt(130)},
   drynessPct  : {NoValue, Opt(60), Opt(150)},
   poresPct    : {NoValue, Opt(30), Opt(100)}]
OilinessOpacities == {100, 1000}

OilinessCalls ==
  [renderer : {"drawOiliness"}, canvas : {TRUE}, scores : RegionScoreInputs,
   global : GlobalInputs, opacity : OilinessOpacities]
    \cup {[renderer |-> "drawOiliness", canvas |-> FALSE, scores |-> NoValue,
           global |-> [oilinessPct |-> NoValue, drynessPct |-> NoValue,
                       poresPct |-> NoValue],
           opacity |-> 1000]}

MaxDets == 2
Confidences == {0 - 500, 0, 100, 200, 600, 1000, 1700}
DetectionOf(c) ==
  [x |-> 10, y |-> 12, width |-> 6, height |-> 4, confidence |-> c,
   class_name |-> "acne"]
DetectionLists ==
  UNION {[1..n -> {DetectionOf(c) : c \in Confidences}] : n \in 0..MaxDets}
AcneOpacities == {100, 500, 1000}
ImageSizes == {[width |-> 0, height |-> 480], [width |-> 640, height |-> 480]}

AcneCalls ==
  [renderer : {"drawAcne", "DetectionsOverlay"}, canvas : BOOLEAN,
   imageSize : ImageSizes, dets : DetectionLists, mode : {"heat", "boxes"},
   opacity : AcneOpacities]

RdIdle == rdIn = NoValue /\ rdOut = NoValue

RdInit ==
  /\ rdIn \in OilinessCalls \cup AcneCalls
  /\ rdOut = NoValue

RdDrawOiliness ==
  /\ rdIn.renderer = "drawOiliness"
  /\ rdOut' = [painted |-> drawOiliness(rdIn.canvas, rdIn.scores, rdIn.global, rdIn.opacity)]
  /\ UNCHANGED rdIn

RdDrawAcne ==
  /\ rdIn.renderer = "drawAcne"
  /\ rdOut' = [painted |-> drawAcne(rdIn.canvas, rdIn.dets, rdIn.mode, rdIn.opacity)]
  /\ UNCHANGED rdIn

RdDetectionsOverlay ==
  /\ rdIn.renderer = "DetectionsOverlay"
  /\ rdOut' = [painted |-> DetectionsOverlay(rdIn.canvas, rdIn.imageSize, rdIn.dets,
                                             rdIn.mode, rdIn.opacity)]
  /\ UNCHANGED rdIn

----------------------------------------------------------------------------
(* utils/faceDetection.ts: trackFaceInRealTime                             *)
(*                                                                         *)
(* A loop is one call of trackFaceInRealTime with the closure it creates.  *)
(* FaceDetector.detect and FaceLandmarker.detect are synchronous, so a     *)
(* frame whose models are loaded is analysed, delivered and rescheduled    *)
(* within one task; a frame that has to load the models stays in flight    *)
(* until initializeFaceDetection settles.                                  *)

MaxLoops == 1     \* calls of trackFaceInRealTime by an arbitrary caller
MaxFrames == 2    \* frames one loop analyses in one behaviour

\* the call chains that may be tracking loops
TrackTasks == RedrawTasks

\* the loops started so far
LoopsStarted == Cardinality({t \in TrackTasks : trPhase[t] # "none"})

VideoWidths == {0, 640}

ModelsMissing == ~isInitialized \/ faceDetector = NoModel \/ faceLandmarker = NoModel

TrIdle ==
  /\ videoWidth = 0
  /\ trPhase = [t \in TrackTasks |-> "none"]
  /\ isTracking = [t \in TrackTasks |-> FALSE]
  /\ cancelCalled = [t \in TrackTasks |-> FALSE]
  /\ analyses = [t \in TrackTasks |-> 0]
  /\ timers = [t \in TrackTasks |-> 0]
  /\ updates = [t \in TrackTasks |-> 0]
  /\ errorsLogged = [t \in TrackTasks |-> 0]
  /\ lateUpdates = [t \in TrackTasks |-> 0]
  /\ lateTimers = [t \in TrackTasks |-> 0]
  /\ sawNoVideo = [t \in TrackTasks |-> FALSE]

\* the try / catch of track and the rescheduling after it, for a frame
\* whose analysis settled with outcome; the error is rescheduled like a result
FrameSettled_StopOnError(t, outcome, tracking, timersNow) ==
  /\ IF IsThrown(outcome)
       THEN /\ errorsLogged' = [errorsLogged EXCEPT ![t] = @ + 1]
            /\ UNCHANGED <<updates, lateUpdates>>
       ELSE /\ updates' = [updates EXCEPT ![t] = @ + 1]
            /\ lateUpdates' = [lateUpdates EXCEPT ![t] = IF cancelCalled[t] THEN @ + 1 ELSE @]
            /\ UNCHANGED errorsLogged
  /\ IF tracking /\ ~IsThrown(outcome)
       THEN /\ timers' = [timers EXCEPT ![t] = timersNow + 1]
            /\ lateTimers' = [lateTimers EXCEPT ![t] = IF cancelCalled[t] THEN @ + 1 ELSE @]
       ELSE /\ timers' = [timers EXCEPT ![t] = timersNow]
            /\ UNCHANGED lateTimers

\* onFaceUpdate(result) or console.error(error), then setTimeout(track, 100)
\* if (isTracking)
FrameSettled(t, outcome, tracking, timersNow) ==
  /\ IF IsThrown(outcome)
       THEN /\ errorsLogged' = [errorsLogged EXCEPT ![t] = @ + 1]
            /\ UNCHANGED <<updates, lateUpdates>>
       ELSE /\ updates' = [updates EXCEPT ![t] = @ + 1]
            /\ lateUpdates' = [lateUpdates EXCEPT ![t] = IF cancelCalled[t] THEN @ + 1 ELSE @]
            /\ UNCHANGED errorsLogged
  /\ IF tracking
       THEN /\ timers' = [timers EXCEPT ![t] = timersNow + 1]
            /\ lateTimers' = [lateTimers EXCEPT ![t] = IF cancelCalled[t] THEN @ + 1 ELSE @]
       ELSE /\ timers' = [timers EXCEPT ![t] = timersNow]
            /\ UNCHANGED lateTimers

\* one call of track, up to its first suspension.  tracking is the value of
\* isTracking it reads, timersNow the timers pending when it is called.
track(t, tracking, timersNow) ==
  IF ~tracking \/ videoWidth = 0
    THEN /\ timers' = [timers EXCEPT ![t] = timersNow]
         /\ sawNoVideo' = [sawNoVideo EXCEPT ![t] = @ \/ tracking]
         /\ pc' = [pc EXCEPT ![t] = "idle"]
         /\ initRet' = [initRet EXCEPT ![t] = FALSE]
         /\ UNCHANGED <<analyses, updates, errorsLogged, lateUpdates, lateTimers>>
    ELSE IF ModelsMissing
      THEN /\ InitCall(t)
           /\ analyses' = [analyses EXCEPT ![t] = @ + 1]
           /\ timers' = [timers EXCEPT ![t] = timersNow]
           /\ UNCHANGED <<updates, errorsLogged, lateUpdates, lateTimers, sawNoVideo>>
      ELSE /\ FrameSettled(t, AnalyzeWithModels, tracking, timersNow)
           /\ pc' = [pc EXCEPT ![t] = "idle"]
           /\ initRet' = [initRet EXCEPT ![t] = FALSE]
           /\ UNCHANGED <<analyses, sawNoVideo>>

\* let isTracking = true; track(); return the cancel function
TrackBegin(t) ==
  /\ trPhase' = [trPhase EXCEPT ![t] = "tracking"]
  /\ isTracking' = [isTracking EXCEPT ![t] = TRUE]
  /\ track(t, TRUE, timers[t])
  /\ UNCHANGED <<cancelCalled, videoWidth>>

\* trackFaceInRealTime is called: it awaits initializeFaceDetection unless
\* isInitialized
TrackCall(t) ==
  /\ trPhase[t] = "none"
  /\ \A u \in TrackTasks : u < t => trPhase[u] # "none"
  /\ IF ~isInitialized
       THEN /\ InitCall(t)
            /\ trPhase' = [trPhase EXCEPT ![t] = "init"]
            /\ UNCHANGED <<videoWidth, isTracking, cancelCalled, analyses, timers,
                           updates, errorsLogged, lateUpdates, lateTimers, sawNoVideo>>
       ELSE TrackBegin(t)
  /\ UNCHANGED <<fdVars, inVars, cache, faceResult, countVars, scVars>>

\* trackFaceInRealTime resumes after initializeFaceDetection, whatever it
\* returned
TrackAfterInit(t) ==
  /\ trPhase[t] = "init"
  /\ pc[t] = "initReturned"
  /\ TrackBegin(t)
  /\ UNCHANGED <<fdVars, inVars, cache, faceResult, countVars, scVars>>

\* analyzeFaceForSkinAnalysis resumes in a frame that had to load the models
FrameAfterInit(t) ==
  /\ trPhase[t] = "tracking"
  /\ pc[t] = "initReturned"
  /\ analyses[t] > 0
  /\ analyses' = [analyses EXCEPT ![t] = @ - 1]
  /\ FrameSettled(t, AnalyzeWithModels, isTracking[t], timers[t])
  /\ pc' = [pc EXCEPT ![t] = "idle"]
  /\ initRet' = [initRet EXCEPT ![t] = FALSE]
  /\ UNCHANGED <<videoWidth, trPhase, isTracking, cancelCalled, sawNoVideo>>
  /\ UNCHANGED <<fdVars, inVars, cache, faceResult, countVars, scVars>>

\* a setTimeout(track, 100) callback runs
TimerFires(t) ==
  /\ timers[t] > 0
  /\ updates[t] + errorsLogged[t] < MaxFrames
  /\ track(t, isTracking[t], timers[t] - 1)
  /\ UNCHANGED <<videoWidth, trPhase, isTracking, cancelCalled>>
  /\ UNCHANGED <<fdVars, inVars, cache, faceResult, countVars, scVars>>

\* the function trackFaceInRealTime returned is called
CancelTracking(t) ==
  /\ isTracking' = [isTracking EXCEPT ![t] = FALSE]
  /\ cancelCalled' = [cancelCalled EXCEPT ![t] = TRUE]

TrackCancel(t) ==
  /\ trPhase[t] = "tracking"
  /\ ~cancelCalled[t]
  /\ CancelTracking(t)
  /\ UNCHANGED <<videoWidth, trPhase, analyses, timers, updates, errorsLogged,
                 lateUpdates, lateTimers, sawNoVideo>>
  /\ UNCHANGED <<fdVars, hgVars>>

\* the video element gets or loses its frame size
VideoResize(w) ==
  /\ w # videoWidth
  /\ videoWidth' = w
  /\ UNCHANGED <<trPhase, isTracking, cancelCalled, analyses, timers, updates,
                 errorsLogged, lateUpdates, lateTimers, sawNoVideo>>
  /\ UNCHANGED <<fdVars, hgVars>>

\* what the detectors see in the video
TrackScenes == {in.scene : in \in GalleryInputs}

TrInit ==
  /\ videoWidth \in VideoWidths
  /\ trPhase = [t \in TrackTasks |-> "none"]
  /\ isTracking = [t \in TrackTasks |-> FALSE]
  /\ cancelCalled = [t \in TrackTasks |-> FALSE]
  /\ analyses = [t \in TrackTasks |-> 0]
  /\ timers = [t \in TrackTasks |-> 0]
  /\ updates = [t \in TrackTasks |-> 0]
  /\ errorsLogged = [t \in TrackTasks |-> 0]
  /\ lateUpdates = [t \in TrackTasks |-> 0]
  /\ lateTimers = [t \in TrackTasks |-> 0]
  /\ sawNoVideo = [t \in TrackTasks |-> FALSE]

\* the gallery variables while only the video is analysed
TrHgInit ==
  /\ image = NoValue
  /\ scene \in TrackScenes
  /\ cache = <<>>
  /\ pc = [t \in Tasks |-> "idle"]
  /\ faceResult = [t \in Tasks |-> NoValue]
  /\ initRet = [t \in Tasks |-> FALSE]
  /\ faceAnalyses = 0
  /\ rednessComputations = 0
  /\ pigmentComputations = 0
  /\ cacheSets = 0
  /\ faceDetectionReady = FALSE
  /\ scannerError = ""

----------------------------------------------------------------------------
(* CameraWithGuidance: camera, model loading and face tracking             *)
(*                                                                         *)
(* The guidance message, the face result shown and the overlay drawing are *)
(* left out: nothing below reads them.  videoRef.current is the video      *)
(* element while the component is open and null while it is closed.        *)
(* React runs the effects of a commit before it handles the next update,   *)
(* so no handler of the component runs while an effect is pending.         *)

CgIdle ==
  /\ isOpen = FALSE
  /\ cameraRequests = 0
  /\ streamRef = "null"
  /\ liveStreams = 0
  /\ metadataPending = FALSE
  /\ isVideoReady = FALSE
  /\ effectPending = FALSE
  /\ trackingCleanupRef = 0

\* startFaceTracking: returns at once without a video element or before the
\* models are ready; otherwise awaits trackFaceInRealTime and stores the
\* cancel function it returns
startFaceTracking ==
  IF ~isOpen \/ ~faceDetectionReady
    THEN UNCHANGED <<trVars, pc, initRet, trackingCleanupRef>>
    ELSE \E t \in TrackTasks :
           /\ TrackCall(t)
           /\ trackingCleanupRef' =
                IF trPhase'[t] = "tracking" THEN t ELSE trackingCleanupRef

\* the effect that runs when the component opens: initializeCamera() up to
\* getUserMedia and initializeFaceDetectionModel() up to its await
CgOpen ==
  /\ ~isOpen
  /\ ~effectPending
  /\ isOpen' = TRUE
  /\ cameraRequests' = cameraRequests + 1
  /\ \E t \in InitTasks : ScannerInitStart(t)
  /\ UNCHANGED <<streamRef, liveStreams, metadataPending, isVideoReady,
                 effectPending, trackingCleanupRef, trVars>>

\* getUserMedia resolves: the stream is stored and, if the video element is
\* there, attached and played
CgCameraGranted ==
  /\ cameraRequests > 0
  /\ ~effectPending
  /\ cameraRequests' = cameraRequests - 1
  /\ streamRef' = "stream"
  /\ liveStreams' = liveStreams + 1
  /\ metadataPending' = (metadataPending \/ isOpen)
  /\ UNCHANGED <<isOpen, isVideoReady, effectPending, trackingCleanupRef, trVars,
                 fdVars, hgVars>>

\* getUserMedia rejects
CgCameraDenied ==
  /\ cameraRequests > 0
  /\ ~effectPending
  /\ cameraRequests' = cameraRequests - 1
  /\ UNCHANGED <<isOpen, streamRef, liveStreams, metadataPending, isVideoReady,
                 effectPending, trackingCleanupRef, trVars, fdVars, hgVars>>

\* initializeFaceDetectionModel resumes: setFaceDetectionReady(true) on
\* success
CgInitDone(t) ==
  /\ ~effectPending
  /\ ScannerInitDone(t)
  /\ effectPending' = (faceDetectionReady' # faceDetectionReady)
  /\ UNCHANGED <<isOpen, cameraRequests, streamRef, liveStreams, metadataPending,
                 isVideoReady, trackingCleanupRef, trVars>>

\* onLoadedMetadata of the video element
handleVideoReady ==
  /\ isOpen
  /\ metadataPending
  /\ ~effectPending
  /\ videoWidth # 0
  /\ metadataPending' = FALSE
  /\ isVideoReady' = TRUE
  /\ effectPending' = ~isVideoReady
  /\ startFaceTracking
  /\ UNCHANGED <<isOpen, cameraRequests, streamRef, liveStreams>>
  /\ UNCHANGED <<fdVars, inVars, cache, faceResult, countVars, scVars>>

\* the effect on [isVideoReady, faceDetectionReady, startFaceTracking]
CgTrackingEffect ==
  /\ effectPending
  /\ effectPending' = FALSE
  /\ IF isVideoReady /\ faceDetectionReady
       THEN startFaceTracking
       ELSE UNCHANGED <<trVars, pc, initRet, trackingCleanupRef>>
  /\ UNCHANGED <<isOpen, cameraRequests, streamRef, liveStreams, metadataPending,
                 isVideoReady>>
  /\ UNCHANGED <<fdVars, inVars, cache, faceResult, countVars, scVars>>

\* the cleanup of the opening effect, run when the component closes
CgClose ==
  /\ isOpen
  /\ ~effectPending
  /\ isOpen' = FALSE
  /\ IF streamRef # "null"
       THEN liveStreams' = liveStreams - 1 /\ streamRef' = "null"
       ELSE UNCHANGED <<liveStreams, streamRef>>
  /\ IF trackingCleanupRef # 0
       THEN CancelTracking(trackingCleanupRef) /\ trackingCleanupRef' = 0
       ELSE UNCHANGED <<isTracking, cancelCalled, trackingCleanupRef>>
  /\ isVideoReady' = FALSE
  /\ faceDetectionReady' = FALSE
  /\ metadataPending' = FALSE
  /\ effectPending' = (isVideoReady \/ faceDetectionReady)
  /\ UNCHANGED <<cameraRequests, videoWidth, trPhase, analyses, timers, updates,
                 errorsLogged, lateUpdates, lateTimers, sawNoVideo>>
  /\ UNCHANGED <<fdVars, inVars, cache, pc, faceResult, initRet, countVars,
                 scannerError>>

----------------------------------------------------------------------------
(* FaceScanner: camera and detection loop                                  *)
(*                                                                         *)
(* The video and canvas elements are always mounted.  A button handler is  *)
(* the function of the render that is on screen, so the state it reads is  *)
(* the state of that render.                                               *)

MaxCameraStarts == 3      \* presses of Start Camera in one behaviour
MaxDetectionStarts == 3   \* presses of Start Detection in one behaviour

FsIdle ==
  /\ modelsLoading = FALSE
  /\ isModelLoaded = FALSE
  /\ isCameraOn = FALSE
  /\ isDetecting = FALSE
  /\ fsError = ""
  /\ fsCameraRequests = 0
  /\ cameraStarts = 0
  /\ srcObject = "null"
  /\ fsLiveStreams = 0
  /\ framesInFlight = 0
  /\ framesStarted = 0
  /\ detectionStarts = 0

\* the component is mounted: loadModels() is running
FsInit ==
  /\ modelsLoading = TRUE
  /\ isModelLoaded = FALSE
  /\ isCameraOn = FALSE
  /\ isDetecting = FALSE
  /\ fsError = ""
  /\ fsCameraRequests = 0
  /\ cameraStarts = 0
  /\ srcObject = "null"
  /\ fsLiveStreams = 0
  /\ framesInFlight = 0
  /\ framesStarted = 0
  /\ detectionStarts = 0

\* loadModels settles: all five nets loaded, or one load rejected
loadModels(ok) ==
  /\ modelsLoading
  /\ modelsLoading' = FALSE
  /\ IF ok
       THEN isModelLoaded' = TRUE /\ UNCHANGED fsError
       ELSE fsError' = "Failed to load face recognition models"
            /\ UNCHANGED isModelLoaded
  /\ UNCHANGED <<isCameraOn, isDetecting, fsCameraRequests, cameraStarts, srcObject,
                 fsLiveStreams, framesInFlight, framesStarted, detectionStarts>>

\* Start Camera is pressed: startCamera up to getUserMedia
startCamera ==
  /\ isModelLoaded
  /\ ~isCameraOn
  /\ cameraStarts < MaxCameraStarts
  /\ cameraStarts' = cameraStarts + 1
  /\ fsError' = ""
  /\ fsCameraRequests' = fsCameraRequests + 1
  /\ UNCHANGED <<modelsLoading, isModelLoaded, isCameraOn, isDetecting, srcObject,
                 fsLiveStreams, framesInFlight, framesStarted, detectionStarts>>

\* getUserMedia resolves or rejects
startCameraSettle(granted) ==
  /\ fsCameraRequests > 0
  /\ fsCameraRequests' = fsCameraRequests - 1
  /\ IF granted
       THEN /\ srcObject' = "stream"
            /\ fsLiveStreams' = fsLiveStreams + 1
            /\ isCameraOn' = TRUE
            /\ UNCHANGED fsError
       ELSE /\ fsError' = "Unable to access camera. Please ensure camera permissions are granted."
            /\ UNCHANGED <<srcObject, fsLiveStreams, isCameraOn>>
  /\ UNCHANGED <<modelsLoading, isModelLoaded, isDetecting, cameraStarts,
                 framesInFlight, framesStarted, detectionStarts>>

\* Stop Camera is pressed
stopCamera ==
  /\ isModelLoaded
  /\ isCameraOn
  /\ IF srcObject # "null"
       THEN /\ fsLiveStreams' = fsLiveStreams - 1
            /\ srcObject' = "null"
            /\ isCameraOn' = FALSE
            /\ isDetecting' = FALSE
       ELSE UNCHANGED <<fsLiveStreams, srcObject, isCameraOn, isDetecting>>
  /\ UNCHANGED <<modelsLoading, isModelLoaded, fsError, fsCameraRequests, cameraStarts,
                 framesInFlight, framesStarted, detectionStarts>>

\* detectFaces gets past its first line: the elements are there and the
\* isDetecting of the render that made the closure is true
DetectFacesRuns(renderedIsDetecting) == renderedIsDetecting

\* Start Detection is pressed: startDetection with its first call of
\* detectFaces, up to the await of the detection
startDetection ==
  /\ isModelLoaded /\ isCameraOn
  /\ ~isDetecting
  /\ detectionStarts < MaxDetectionStarts
  /\ detectionStarts' = detectionStarts + 1
  /\ isDetecting' = TRUE
  /\ IF DetectFacesRuns(isDetecting)
       THEN /\ framesInFlight' = framesInFlight + 1
            /\ framesStarted' = framesStarted + 1
       ELSE UNCHANGED <<framesInFlight, framesStarted>>
  /\ UNCHANGED <<modelsLoading, isModelLoaded, isCameraOn, fsError, fsCameraRequests,
                 cameraStarts, srcObject, fsLiveStreams>>

\* Stop Detection is pressed
stopDetection ==
  /\ isModelLoaded /\ isCameraOn
  /\ isDetecting
  /\ isDetecting' = FALSE
  /\ UNCHANGED <<modelsLoading, isModelLoaded, isCameraOn, fsError, fsCameraRequests,
                 cameraStarts, srcObject, fsLiveStreams, framesInFlight, framesStarted, detectionStarts>>

----------------------------------------------------------------------------
(* Specifications                                                          *)

RegionsIdle == rgIn = NoValue /\ rgOut = NoValue
UiIdle == TrIdle /\ CgIdle /\ FsIdle
GridIdle == gdIn = NoValue /\ gdRaw = NoValue /\ gdOut = NoValue

RegionsInit == RgInit /\ GridIdle /\ FdInit /\ HgIdle /\ LsIdle /\ AnIdle /\ RdIdle /\ UiIdle
RegionsNext == RgEstimate /\ UNCHANGED <<gdVars, fdVars, hgVars, lsVars, anVars, rdVars, uiVars>>
SpecRegions == RegionsInit /\ [][RegionsNext]_vars

GridInit == GdInit /\ RegionsIdle /\ FdInit /\ HgIdle /\ LsIdle /\ AnIdle /\ RdIdle /\ UiIdle
GridNext ==
  \/ GdCompute /\ UNCHANGED <<rgVars, fdVars, hgVars, lsVars, anVars, rdVars, uiVars>>
  \/ GdSmooth /\ UNCHANGED <<rgVars, fdVars, hgVars, lsVars, anVars, rdVars, uiVars>>
SpecGrid == GridInit /\ [][GridNext]_vars

Init == FdInit /\ HgInit /\ RegionsIdle /\ GridIdle /\ LsIdle /\ AnIdle /\ RdIdle /\ UiIdle
Next ==
  \/ \E t \in RedrawTasks : RedrawNoImage(t) /\ UNCHANGED <<rgVars, gdVars, lsVars, anVars, rdVars, uiVars>>
  \/ \E t \in RedrawTasks : RedrawStart(t) /\ UNCHANGED <<rgVars, gdVars, lsVars, anVars, rdVars, uiVars>>
  \/ \E t \in InitTasks : ScannerInitStart(t) /\ UNCHANGED <<rgVars, gdVars, lsVars, anVars, rdVars, uiVars>>
  \/ \E t \in Tasks, ok \in BOOLEAN : InitDetector(t, ok) /\ UNCHANGED <<rgVars, gdVars, lsVars, anVars, rdVars, uiVars>>
  \/ \E t \in Tasks, ok \in BOOLEAN : InitLandmarker(t, ok) /\ UNCHANGED <<rgVars, gdVars, lsVars, anVars, rdVars, uiVars>>
  \/ \E t \in RedrawTasks : AnalyzeAfterInit(t) /\ UNCHANGED <<rgVars, gdVars, lsVars, anVars, rdVars, uiVars>>
  \/ \E t \in InitTasks : ScannerInitDone(t) /\ UNCHANGED <<rgVars, gdVars, lsVars, anVars, rdVars, uiVars>>
  \/ \E t \in RedrawTasks : EnsureComplete(t) /\ UNCHANGED <<rgVars, gdVars, lsVars, anVars, rdVars, uiVars>>
  \/ \E t \in RedrawTasks : RedrawFinish(t) /\ UNCHANGED <<rgVars, gdVars, lsVars, anVars, rdVars, uiVars>>
  \/ cleanupFaceDetection /\ UNCHANGED <<rgVars, gdVars, lsVars, anVars, rdVars, uiVars>>
Spec == Init /\ [][Next]_vars

ScannerRest ==
  <<rgVars, gdVars, fdVars, inVars, cache, pc, faceResult, initRet, countVars,
    faceDetectionReady, anVars, rdVars, uiVars>>

ScannerInit == LsInit /\ FdInit /\ HgIdle /\ RegionsIdle /\ GridIdle /\ AnIdle /\ RdIdle /\ UiIdle
ScannerNext ==
  \/ \E f \in ScannerFaces : OnFaceUpdate(f) /\ UNCHANGED ScannerRest
  \/ \E file \in ScannerFiles : handleFileUpload(file) /\ UNCHANGED ScannerRest
  \/ ImgOnload /\ UNCHANGED ScannerRest
  \/ ImgOnerror /\ UNCHANGED ScannerRest
SpecScanner == ScannerInit /\ [][ScannerNext]_vars

AnalysisRest == <<rgVars, gdVars, fdVars, hgVars, lsVars, rdVars, uiVars>>

AnalysisInit == AnInit /\ FdInit /\ HgIdle /\ LsIdle /\ RegionsIdle /\ GridIdle /\ RdIdle /\ UiIdle
AnalysisNext ==
  \/ handleLocalAnalysisResult /\ UNCHANGED AnalysisRest
  \/ \E file \in CapturedFiles : handleFileCapture(file) /\ UNCHANGED AnalysisRest
  \/ \E file \in CapturedFiles : \E response \in ServiceResponses(file) :
       performAnalysisSettle(file, response) /\ UNCHANGED AnalysisRest
  \/ \E file \in CapturedFiles : saveToHistorySettle(file) /\ UNCHANGED AnalysisRest
SpecAnalysis == AnalysisInit /\ [][AnalysisNext]_vars

RenderRest == <<rgVars, gdVars, fdVars, hgVars, lsVars, anVars, uiVars>>

RenderInit ==
  RdInit /\ FdInit /\ HgIdle /\ LsIdle /\ AnIdle /\ RegionsIdle /\ GridIdle /\ UiIdle
RenderNext ==
  \/ RdDrawOiliness /\ UNCHANGED RenderRest
  \/ RdDrawAcne /\ UNCHANGED RenderRest
  \/ RdDetectionsOverlay /\ UNCHANGED RenderRest
SpecRender == RenderInit /\ [][RenderNext]_vars

TrackingRest == <<rgVars, gdVars, lsVars, anVars, rdVars, cgVars, fsVars>>

TrackingInit ==
  TrInit /\ TrHgInit /\ FdInit /\ CgIdle /\ RegionsIdle /\ GridIdle /\ LsIdle /\ AnIdle
    /\ RdIdle /\ FsIdle
TrackingNext ==
  \/ \E t \in TrackTasks : LoopsStarted < MaxLoops /\ TrackCall(t) /\ UNCHANGED TrackingRest
  \/ \E t \in TrackTasks, ok \in BOOLEAN : InitDetector(t, ok) /\ UNCHANGED <<TrackingRest, trVars>>
  \/ \E t \in TrackTasks, ok \in BOOLEAN : InitLandmarker(t, ok) /\ UNCHANGED <<TrackingRest, trVars>>
  \/ \E t \in TrackTasks : TrackAfterInit(t) /\ UNCHANGED TrackingRest
  \/ \E t \in TrackTasks : FrameAfterInit(t) /\ UNCHANGED TrackingRest
  \/ \E t \in TrackTasks : TimerFires(t) /\ UNCHANGED TrackingRest
  \/ \E t \in TrackTasks : TrackCancel(t) /\ UNCHANGED TrackingRest
  \/ \E w \in VideoWidths : VideoResize(w) /\ UNCHANGED TrackingRest
  \/ cleanupFaceDetection /\ UNCHANGED <<TrackingRest, trVars>>
SpecTracking == TrackingInit /\ [][TrackingNext]_vars

CameraRest == <<rgVars, gdVars, lsVars, anVars, rdVars, fsVars>>

CameraInit ==
  CgIdle /\ TrInit /\ TrHgInit /\ FdInit /\ RegionsIdle /\ GridIdle /\ LsIdle /\ AnIdle
    /\ RdIdle /\ FsIdle
CameraNext ==
  \/ CgOpen /\ UNCHANGED CameraRest
  \/ CgCameraGranted /\ UNCHANGED CameraRest
  \/ CgCameraDenied /\ UNCHANGED CameraRest
  \/ \E t \in InitTasks, ok \in BOOLEAN :
       InitDetector(t, ok) /\ UNCHANGED <<CameraRest, trVars, cgVars>>
  \/ \E t \in InitTasks, ok \in BOOLEAN :
       InitLandmarker(t, ok) /\ UNCHANGED <<CameraRest, trVars, cgVars>>
  \/ \E t \in InitTasks : CgInitDone(t) /\ UNCHANGED CameraRest
  \/ handleVideoReady /\ UNCHANGED CameraRest
  \/ CgTrackingEffect /\ UNCHANGED CameraRest
  \/ CgClose /\ UNCHANGED CameraRest
  \/ \E t \in TrackTasks : TimerFires(t) /\ UNCHANGED <<CameraRest, cgVars>>
  \/ \E w \in VideoWidths : VideoResize(w) /\ UNCHANGED <<CameraRest, cgVars>>
SpecCamera == CameraInit /\ [][CameraNext]_vars

FaceScannerRest ==
  <<rgVars, gdVars, fdVars, hgVars, lsVars, anVars, rdVars, trVars, cgVars>>

FaceScannerInit ==
  FsInit /\ TrIdle /\ CgIdle /\ FdInit /\ HgIdle /\ RegionsIdle /\ GridIdle /\ LsIdle
    /\ AnIdle /\ RdIdle
FaceScannerNext ==
  \/ \E ok \in BOOLEAN : loadModels(ok) /\ UNCHANGED FaceScannerRest
  \/ startCamera /\ UNCHANGED FaceScannerRest
  \/ \E granted \in BOOLEAN : startCameraSettle(granted) /\ UNCHANGED FaceScannerRest
  \/ stopCamera /\ UNCHANGED FaceScannerRest
  \/ startDetection /\ UNCHANGED FaceScannerRest
  \/ stopDetection /\ UNCHANGED FaceScannerRest
SpecFaceScanner == FaceScannerInit /\ [][FaceScannerNext]_vars





----------------------------------------------------------------------------
(* Properties of the region estimator (SpecRegions)                        *)

RgDone == rgOut # NoValue

\* what the estimator was handed
RgFace == DetectFace(rgIn.d)
RgSkinRegions == IF IsThrown(RgFace) THEN NoValue ELSE RgFace.skinRegions
RgFaceBox ==
  IF IsThrown(RgFace) THEN NoValue ELSE NormalizeFaceBox(RgFace, rgIn.nat, rgIn.nat)

RgProportionalPath == RgSkinRegions = NoValue /\ RgFaceBox # NoValue

AllRegionsValid(r) == \A name \in RegionNames : ValidBox(r[name])

\* C2: for every valid face box the proportional fallback returns exactly
\* five regions, each with non-negative width and height, x + width <= 1 and
\* y + height <= 1.
C2_FallbackRegionsInBounds ==
  (RgDone /\ RgProportionalPath /\ ValidBox(RgFaceBox)) =>
     /\ DOMAIN rgOut = RegionNames
     /\ Cardinality(DOMAIN rgOut) = 5
     /\ \A name \in RegionNames :
          /\ rgOut[name].width >= 0
          /\ rgOut[name].height >= 0
          /\ rgOut[name].x + rgOut[name].width <= UNIT
          /\ rgOut[name].y + rgOut[name].height <= UNIT

\* a valid face box that reaches the right and bottom image edges
C2_Witness ==
  /\ RgDone /\ RgProportionalPath /\ ValidBox(RgFaceBox)
  /\ RgFaceBox.width > 0 /\ RgFaceBox.height > 0
  /\ RgFaceBox.x + RgFaceBox.width = UNIT
  /\ RgFaceBox.y + RgFaceBox.height = UNIT

\* the layout of section 4.1, stated on its own: fractions of the face box
\* in hundredths <<left, top, width, height>>
LayoutPct ==
  [forehead   |-> <<5, 2, 90, 22>>,
   leftCheek  |-> <<5, 38, 35, 28>>,
   rightCheek |-> <<60, 38, 35, 28>>,
   nose       |-> <<42, 30, 16, 28>>,
   chin       |-> <<25, 70, 50, 20>>]

IsLayoutOf(r, fb) ==
  \A name \in RegionNames :
    /\ 100 * (r[name].x - fb.x) = LayoutPct[name][1] * fb.width
    /\ 100 * (r[name].y - fb.y) = LayoutPct[name][2] * fb.height
    /\ 100 * r[name].width = LayoutPct[name][3] * fb.width
    /\ 100 * r[name].height = LayoutPct[name][4] * fb.height

\* the landmark set the estimator can use: the face was found and the
\* landmarker returned at least 468 points
RgEnoughLandmarks == ~rgIn.d.fails /\ rgIn.d.faces /\ rgIn.d.n >= 468

IsLandmarkBoxes(r) ==
  LET idx == [forehead |-> ForeheadIdx, leftCheek |-> LeftCheekIdx,
              rightCheek |-> RightCheekIdx, nose |-> NoseIdx, chin |-> ChinIdx]
  IN  \A name \in RegionNames :
        LET pts == {LandmarkAt(rgIn.d.lm, idx[name][k]) : k \in 1..Len(idx[name])}
        IN  /\ \A q \in pts :
                 /\ r[name].x <= q.x /\ q.x <= r[name].x + r[name].width
                 /\ r[name].y <= q.y /\ q.y <= r[name].y + r[name].height
            /\ \E q \in pts : q.x = r[name].x
            /\ \E q \in pts : q.x = r[name].x + r[name].width
            /\ \E q \in pts : q.y = r[name].y
            /\ \E q \in pts : q.y = r[name].y + r[name].height

\* the three tiers in their order
RgTierOrder ==
  /\ DOMAIN rgOut = RegionNames
  /\ IF RgEnoughLandmarks THEN IsLandmarkBoxes(rgOut)
     ELSE IF ~rgIn.d.fails /\ rgIn.d.faces
       THEN IsLayoutOf(rgOut, Box((rgIn.d.bbox.x * UNIT) \div rgIn.nat,
                                  (rgIn.d.bbox.y * UNIT) \div rgIn.nat,
                                  (rgIn.d.bbox.width * UNIT) \div rgIn.nat,
                                  (rgIn.d.bbox.height * UNIT) \div rgIn.nat))
       ELSE IsLayoutOf(rgOut, Box(2000, 1000, 6000, 8000))

\* C3: region resolution follows the three tiers in fixed order (landmarks
\* with at least 468 points, else the layout of the supplied face box, else
\* the layout of the default box 0.2, 0.1, 0.6, 0.8), so that the result
\* always has five well-formed regions.
C3_ThreeTiersWellFormed ==
  RgDone => (RgTierOrder /\ AllRegionsValid(rgOut))

\* the tier order alone, without the well-formedness of the result
RgTierOrderHolds == RgDone => RgTierOrder

\* with neither landmarks nor face box the default layout is well formed
RgDefaultTierWellFormed ==
  (RgDone /\ RgSkinRegions = NoValue /\ RgFaceBox = NoValue) =>
     (IsLayoutOf(rgOut, Box(2000, 1000, 6000, 8000)) /\ AllRegionsValid(rgOut))

\* C4: for any face box handed to the estimator, including one that extends
\* beyond the image or has a negative origin, every returned region box has
\* non-negative x, y, width, height and x + width <= 1, y + height <= 1.
C4_FaceBoxClamped ==
  (RgDone /\ RgProportionalPath) => AllRegionsValid(rgOut)

----------------------------------------------------------------------------
(* Properties of the grid aggregator (SpecGrid)                            *)

GdDone == gdOut # NoValue
GdReturned == GdDone /\ ~IsThrown(gdOut)
GdOfImage == gdIn.kind = "image"

GridRows == 0..(GRID_H - 1)
GridCols == 0..(GRID_W - 1)

InUnitRange(grid) ==
  \A y \in DOMAIN grid : \A x \in DOMAIN grid[y] : grid[y][x] >= 0 /\ grid[y][x] <= ONE

\* C5: for every image size (also narrower or shorter than the grid) and
\* every region set the two grid computations return exactly GRID_H rows of
\* exactly GRID_W cells, width and height fields equal to those dimensions,
\* and every cell in [0,1].
C5_GridShapeAndRange ==
  (GdDone /\ GdOfImage /\ gdIn.img.w >= 1 /\ gdIn.img.h >= 1) =>
     /\ ~IsThrown(gdOut)
     /\ gdOut.width = GRID_W
     /\ gdOut.height = GRID_H
     /\ DOMAIN gdOut.grid = GridRows
     /\ \A y \in GridRows : DOMAIN gdOut.grid[y] = GridCols
     /\ InUnitRange(gdOut.grid)

\* an image narrower than the grid whose grid has a non-zero cell
C5_Witness ==
  /\ GdReturned /\ GdOfImage
  /\ gdIn.img.w >= 1 /\ gdIn.img.w < GRID_W
  /\ \E y \in GridRows : \E x \in GridCols : gdOut.grid[y][x] > 0

\* the masked pixels of a cell, for the image and regions of gdIn
GdCellPixels(gx, gy) ==
  CellPixels(regionMask(gdIn.regions, gdIn.img.w, gdIn.img.h),
             gdIn.img.w, gdIn.img.h, gx, gy)

\* C6: during aggregation every cell with zero masked pixels (also a cell
\* that spans no pixel at all) is assigned exactly 0, and no NaN enters the
\* grid.
C6_EmptyCellIsZero ==
  (GdReturned /\ GdOfImage) =>
     \A gy \in GridRows : \A gx \in GridCols :
        /\ GdCellPixels(gx, gy) = {} => gdRaw.grid[gy][gx] = 0
        /\ gdRaw.grid[gy][gx] # NaN
        /\ gdOut.grid[gy][gx] # NaN

\* a cell spanning no pixel next to a cell with masked pixels
C6_Witness ==
  /\ GdReturned /\ GdOfImage
  /\ gdIn.img.w < GRID_W
  /\ \E gy \in GridRows : \E gx \in GridCols :
        /\ ((gx * gdIn.img.w) \div GRID_W) = (((gx + 1) * gdIn.img.w) \div GRID_W)
        /\ gdRaw.grid[gy][gx] = 0
  /\ \E gy \in GridRows : \E gx \in GridCols :
        GdCellPixels(gx, gy) # {} /\ gdRaw.grid[gy][gx] > 0

KernelSum ==
  LET row(i) == Kernel[i][1] + Kernel[i][2] + Kernel[i][3]
  IN  row(1) + row(2) + row(3)

\* C7: the kernel weights (centre 0.4, edges 0.1, corners 0.05) sum to
\* exactly 1.0, and smoothGrid maps every grid with values in [0,1] to a
\* grid with values in [0,1].
C7_SmoothingBounded ==
  /\ KernelSum = KDEN
  /\ Kernel[2][2] * 10 = 4 * KDEN
  /\ \A p \in {<<1, 2>>, <<2, 1>>, <<2, 3>>, <<3, 2>>} : Kernel[p[1]][p[2]] * 10 = KDEN
  /\ \A p \in {<<1, 1>>, <<1, 3>>, <<3, 1>>, <<3, 3>>} : Kernel[p[1]][p[2]] * 20 = KDEN
  /\ (GdReturned /\ InUnitRange(gdRaw.grid)) => InUnitRange(gdOut.grid)

\* the all-ones grid, whose interior stays at exactly 1
C7_Witness ==
  /\ GdReturned /\ gdIn.kind = "grid"
  /\ \A y \in GridRows : \A x \in GridCols : gdRaw.grid[y][x] = ONE
  /\ gdOut.grid[1][1] = ONE


----------------------------------------------------------------------------
(* Properties of the analysis cache and of the model singleton (Spec)      *)

ModelsError == "Face detection models not initialized"

HasFiveRegions(entry) ==
  /\ entry.regions # NoValue
  /\ DOMAIN entry.regions = RegionNames
  /\ Cardinality(DOMAIN entry.regions) = 5

\* C1: whatever the outcome of the face analysis (landmarks, face without
\* usable landmarks, no face, or a throw because the models could not be
\* initialized), when ensureAnalysisCached completes the cache holds an
\* entry for the image key with all five regions, and the failure of the
\* analysis is not propagated: the call rejects only when the canvas cannot
\* be read because the image has no width or height.
C1_EnsureAlwaysCaches ==
  \A t \in RedrawTasks :
    /\ pc[t] = "ensured" =>
         /\ ImageKey(image) \in DOMAIN cache
         /\ HasFiveRegions(cache[ImageKey(image)])
    /\ pc[t] = "rejected" =>
         /\ faceResult[t] = Thrown("IndexSizeError")
         /\ (image.w = 0 \/ image.h = 0)
    /\ (pc[t] = "awaitFace" /\ image.w > 0 /\ image.h > 0) =>
         ~IsThrown(EnsureSettled(faceResult[t], image))

\* the analysis threw for want of models and the call still completed with
\* an entry in the cache
C1_Witness ==
  \E t \in RedrawTasks :
    /\ pc[t] = "ensured"
    /\ faceResult[t] = Thrown(ModelsError)
    /\ ImageKey(image) \in DOMAIN cache
    /\ HasFiveRegions(cache[ImageKey(image)])

\* C9: for one image key the face analysis and the two grid computations
\* are performed at most once over any sequence of redraws, also when a
\* redraw starts while an earlier one still awaits the face analysis, and an
\* entry once stored is never replaced.
C9_ComputedOncePerKey ==
  /\ faceAnalyses <= 1
  /\ rednessComputations <= 1
  /\ pigmentComputations <= 1
  /\ cacheSets <= 1

\* C10: between two cleanups initializeFaceDetection creates at most one
\* FaceDetector and one FaceLandmarker, however many callers invoke it and
\* also when they invoke it while an earlier invocation still awaits the
\* creation of the models.
C10_ModelsCreatedOnce ==
  /\ detectorsCreated <= 1
  /\ landmarkersCreated <= 1


----------------------------------------------------------------------------
(* Properties of the local analysis (SpecScanner)                          *)

\* C8: two runs of the analysis pipeline on identical input produce
\* identical results (metrics, region scores, heat grid): no output depends
\* on randomness or on state left by an earlier run.
C8_PipelineDeterministic ==
  \A i, j \in DOMAIN delivered :
    delivered[i].input = delivered[j].input =>
      delivered[i].result = delivered[j].result

----------------------------------------------------------------------------
(* Properties of the Analysis page (SpecAnalysis)                          *)

\* the page shows the conversion of localResult
AnLocalShown == resultFrom = "local"

SkinTypes == {"Oily", "Dry", "Combination", "Sensitive", "Normal"}

\* C11: determineSkinType returns exactly one of the five skin types, the
\* one of the first matching rule in the order oiliness > 0.7 (Oily),
\* dryness > 0.6 (Dry), oiliness > 0.4 and dryness > 0.4 (Combination),
\* redness > 0.5 (Sensitive), otherwise Normal.
C11_SkinTypeFirstMatch ==
  AnLocalShown =>
    LET m == localResult.metrics
        t == pageAnalysisResult.skinType
        oily == m.oiliness > 700
        dry == m.dryness > 600
        combination == m.oiliness > 400 /\ m.dryness > 400
        sensitive == m.redness > 500
    IN  /\ t \in SkinTypes
        /\ oily => t = "Oily"
        /\ (~oily /\ dry) => t = "Dry"
        /\ (~oily /\ ~dry /\ combination) => t = "Combination"
        /\ (~oily /\ ~dry /\ ~combination /\ sensitive) => t = "Sensitive"
        /\ (~oily /\ ~dry /\ ~combination /\ ~sensitive) => t = "Normal"

\* oiliness 0.8 with dryness 0.9 is still Oily
C11_Witness ==
  /\ AnLocalShown
  /\ localResult.metrics.oiliness = 800
  /\ localResult.metrics.dryness = 900
  /\ pageAnalysisResult.skinType = "Oily"

\* C12: on the local-analysis path the overall score is an integer of
\* 0..100, the nearest one to (1 - (acne + redness) / 2) * 100 (at most one
\* half away from it), whatever the other four metrics are.
C12_OverallScore ==
  AnLocalShown =>
    LET m == localResult.metrics
        score == pageAnalysisResult.overallScore
    IN  /\ score \in 0..100
        /\ Abs(2 * ONE * score - 100 * (2 * ONE - m.acne - m.redness)) <= ONE

C12_Witness ==
  /\ AnLocalShown
  /\ localResult.metrics.acne = 401
  /\ localResult.metrics.redness = 500
  /\ localResult.metrics.oiliness = 800
  /\ pageAnalysisResult.overallScore = 55

NoThresholdTriggers(m) ==
  /\ m.acne <= 400
  /\ m.redness <= 400
  /\ m.oiliness <= 600
  /\ m.dryness <= 500
  /\ m.darkSpots <= 400

TriggeredThresholds(m) ==
  (IF m.acne > 400 THEN 1 ELSE 0) + (IF m.redness > 400 THEN 1 ELSE 0)
    + (IF m.oiliness > 600 THEN 1 ELSE 0) + (IF m.dryness > 500 THEN 1 ELSE 0)
    + (IF m.darkSpots > 400 THEN 1 ELSE 0)

Affirmation == "Your skin looks healthy! Maintain your current routine"
Maintenance == "Continue with daily cleansing and moisturizing"

Entries(list) == {list[i] : i \in DOMAIN list}

\* C13 as stated: when no threshold triggers the list has exactly one entry,
\* the healthy-skin affirmation; when a threshold triggers the affirmation
\* is not in the list.
C13_SingleAffirmation ==
  AnLocalShown =>
    LET m == localResult.metrics
        list == pageAnalysisResult.recommendations
    IN  /\ NoThresholdTriggers(m) => (Len(list) = 1 /\ list[1] = Affirmation)
        /\ ~NoThresholdTriggers(m) => Affirmation \notin Entries(list)

\* C13 amended: when no threshold triggers the list has exactly two
\* entries, the healthy-skin affirmation followed by the advice to continue
\* the daily routine; when a threshold triggers neither of the two is in the
\* list, which holds two entries for each triggered threshold.
C13_HealthyPair ==
  AnLocalShown =>
    LET m == localResult.metrics
        list == pageAnalysisResult.recommendations
    IN  /\ NoThresholdTriggers(m) => list = <<Affirmation, Maintenance>>
        /\ ~NoThresholdTriggers(m) =>
             /\ Affirmation \notin Entries(list)
             /\ Maintenance \notin Entries(list)
             /\ Len(list) = 2 * TriggeredThresholds(m)

C13_Witness ==
  /\ AnLocalShown
  /\ NoThresholdTriggers(localResult.metrics)
  /\ Len(pageAnalysisResult.recommendations) = 2
  /\ pageAnalysisResult.recommendations[1] = Affirmation


----------------------------------------------------------------------------
(* Properties of the canvas renderers (SpecRender)                         *)

RdPainted(renderer) ==
  /\ rdIn # NoValue
  /\ rdIn.renderer = renderer
  /\ rdOut # NoValue
  /\ rdOut.painted # NoValue

\* fallback of each region: the global percentage it derives from, the
\* percentage assumed when that one is absent, and the factor in tenths
FallbackSource ==
  [forehead   |-> [pct |-> "oilinessPct", dflt |-> 50, factor |-> 10],
   nose       |-> [pct |-> "oilinessPct", dflt |-> 50, factor |-> 12],
   leftCheek  |-> [pct |-> "drynessPct", dflt |-> 40, factor |-> 7],
   rightCheek |-> [pct |-> "drynessPct", dflt |-> 40, factor |-> 7],
   chin       |-> [pct |-> "poresPct", dflt |-> 40, factor |-> 9]]

UnitClamp(v) == IF v < 0 THEN 0 ELSE IF v > ONE THEN ONE ELSE v

\* C14: for every combination of present and absent region scores and of
\* present and absent global percentages, the weight that tints each of the
\* five regions is in [0,1]: the clamped explicit score where the region has
\* one, otherwise the clamped global metric times the factor of the region
\* (oiliness x 1.0 forehead, oiliness x 1.2 nose, dryness x 0.7 cheeks,
\* pores x 0.9 chin), each region on its own.
C14_TintWeights ==
  RdPainted("drawOiliness") =>
    \A n \in RegionNames :
      LET w == rdOut.painted.tintWeight[n]
          score == IF rdIn.scores = NoValue THEN NoValue ELSE rdIn.scores[n]
          src == FallbackSource[n]
          given == rdIn.global[src.pct]
          pct == IF given = NoValue THEN src.dflt ELSE given.value
      IN  /\ w \in 0..ONE
          /\ score # NoValue => w = UnitClamp(score.value)
          /\ score = NoValue => w = UnitClamp((pct * ONE * src.factor) \div 1000)

\* forehead has a score above 1, nose and chin fall back on their own
C14_Witness ==
  /\ RdPainted("drawOiliness")
  /\ rdIn.scores # NoValue
  /\ rdIn.scores["forehead"] = Opt(1500)
  /\ rdIn.scores["nose"] = NoValue
  /\ rdIn.scores["leftCheek"] = Opt(650)
  /\ rdIn.global.oilinessPct = Opt(90)
  /\ rdOut.painted.tintWeight["forehead"] = ONE
  /\ rdOut.painted.tintWeight["nose"] = ONE
  /\ rdOut.painted.tintWeight["leftCheek"] = 650

RdHeatPainted ==
  /\ (RdPainted("drawAcne") \/ RdPainted("DetectionsOverlay"))
  /\ rdIn.mode = "heat"

\* C15: in heat mode, in both renderers and for every confidence (negative,
\* below 0.2, above 1), the confidence that scales the gradient is clamped
\* into [0.2, 1], so the peak alpha lies between 0.2 * opacity and opacity.
C15_HeatConfidenceClamped ==
  RdHeatPainted =>
    /\ Len(rdOut.painted.marks) = Len(rdIn.dets)
    /\ \A i \in DOMAIN rdIn.dets :
         LET c == rdIn.dets[i].confidence
             mark == rdOut.painted.marks[i]
         IN  /\ mark.conf \in 200..ONE
             /\ mark.conf = (IF c < 200 THEN 200 ELSE IF c > ONE THEN ONE ELSE c)
             /\ mark.peakAlpha >= (200 * rdIn.opacity) \div ONE
             /\ mark.peakAlpha <= rdIn.opacity

C15_Witness ==
  /\ RdHeatPainted
  /\ rdIn.renderer = "DetectionsOverlay"
  /\ Len(rdIn.dets) = 2
  /\ rdIn.dets[1].confidence < 0
  /\ rdIn.dets[2].confidence > ONE
  /\ rdOut.painted.marks[1].conf = 200
  /\ rdOut.painted.marks[2].conf = ONE


----------------------------------------------------------------------------
(* Properties of the AnalysisResult (SpecAnalysis)                         *)

MetricNames == {"acne", "redness", "oiliness", "dryness", "pores", "darkSpots"}

AnServiceShown == resultFrom = "service"

\* C16 as stated: in every AnalysisResult the page constructs, from the
\* local analysis or from the external service, each of the six metrics is
\* a scalar in [0,1].
C16_MetricsInUnitRange ==
  pageAnalysisResult # NoValue =>
    \A k \in MetricNames : pageAnalysisResult[k] >= 0 /\ pageAnalysisResult[k] <= 1

\* C16 amended: the six metrics of an AnalysisResult are percentages.  Built
\* from the local analysis, each is an integer of 0..100, the nearest one to
\* 100 times the [0,1] metric of the LocalAnalysisResult; built from the
\* external service, each is the number received, as it was received.
C16_MetricsArePercentages ==
  /\ AnLocalShown =>
       \A k \in MetricNames :
         /\ pageAnalysisResult[k] \in 0..100
         /\ 2 * Abs(ONE * pageAnalysisResult[k] - 100 * localResult.metrics[k]) <= ONE
  /\ AnServiceShown =>
       \E file \in CapturedFiles :
         \A k \in MetricNames : pageAnalysisResult[k] = ServiceData(file)[k]

C16_Witness ==
  /\ AnLocalShown
  /\ localResult.metrics.oiliness = 701
  /\ pageAnalysisResult.oiliness = 70
  /\ localResult.metrics.acne = 1000
  /\ pageAnalysisResult.acne = 100


----------------------------------------------------------------------------
(* Properties of the gallery on an image without pixels (Spec)             *)

ZeroSizeImage == image # NoValue /\ (image.w = 0 \/ image.h = 0)

\* C17: an image with zero width or zero height makes the analysis fail
\* with an InvalidImage error, and no partial result is produced: no cache
\* entry (regions, grids) is stored for the image.
C17_InvalidImageError ==
  ZeroSizeImage =>
    /\ ImageKey(image) \notin DOMAIN cache
    /\ \A t \in RedrawTasks :
         /\ pc[t] # "ensured"
         /\ pc[t] = "rejected" => faceResult[t] = Thrown("InvalidImage")


----------------------------------------------------------------------------
(* Properties of the colour classifier and of the cell ranges (SpecGrid)   *)

ColourLevels == {0, 10, 40, 128, 150, 200, 255}
ColourSamples == [r : ColourLevels, g : ColourLevels, b : ColourLevels]

PureRed == [r |-> 255, g |-> 0, b |-> 0]

\* clamp01(0.6 * hueScore + 0.3 * s + 0.1 * (1 - |v - 0.7| / 0.7)) with
\* hueScore = max(0, 1 - min(|h|, |360 - h|) / 40), for a hue in 1/1000
\* degree and s, v in 1/ONE
RednessFormula(hsv) ==
  LET near == IF Abs(hsv.h) < Abs(360000 - hsv.h) THEN Abs(hsv.h) ELSE Abs(360000 - hsv.h)
      ratio == (near * ONE) \div 40000
      hueScore == IF ratio > ONE THEN 0 ELSE ONE - ratio
      valueTerm == ONE - (Abs(hsv.v - 700) * ONE) \div 700
  IN  UnitClamp((6 * hueScore + 3 * hsv.s + valueTerm) \div 10)

RednessOf(px) == RednessFormula(rgb2hsv(px.r, px.g, px.b))

\* C18: for every RGB pixel the redness intensity is clamp01(0.6 hueScore
\* + 0.3 saturation + 0.1 (1 - |value - 0.7| / 0.7)) with the hue, always in
\* [0, 360), saturation and value of rgb2hsv; pure red scores at least 0.85.
\* A cell with a single masked pixel holds that pixel's intensity.
C18_RednessFormula ==
  /\ \A px \in ColourSamples :
       /\ rgb2hsv(px.r, px.g, px.b).h \in 0..359999
       /\ RednessIntensity(px) = RednessOf(px)
  /\ RednessIntensity(PureRed) >= 850
  /\ (GdReturned /\ GdOfImage /\ gdIn.metric = "redness") =>
       \A gy \in GridRows : \A gx \in GridCols :
         \A p \in GdCellPixels(gx, gy) :
           GdCellPixels(gx, gy) = {p} =>
             gdRaw.grid[gy][gx]
               = RednessOf(Pixel(gdIn.img, p % gdIn.img.w, p \div gdIn.img.w))

\* a cell whose only masked pixel is pure red
C18_Witness ==
  /\ GdReturned /\ GdOfImage /\ gdIn.metric = "redness"
  /\ \E gy \in GridRows : \E gx \in GridCols :
       \E p \in GdCellPixels(gx, gy) :
         /\ GdCellPixels(gx, gy) = {p}
         /\ Pixel(gdIn.img, p % gdIn.img.w, p \div gdIn.img.w) = PureRed
         /\ gdRaw.grid[gy][gx] >= 850

\* the cells whose pixel range holds index i
CellsHolding(i, gridDim, imageDim) ==
  {g \in 0..(gridDim - 1) : CellStart(g, gridDim, imageDim) <= i
                            /\ i < CellEnd(g, gridDim, imageDim)}

IsPartition(gridDim, imageDim) ==
  /\ CellStart(0, gridDim, imageDim) = 0
  /\ CellEnd(gridDim - 1, gridDim, imageDim) = imageDim
  /\ \A i \in 0..(imageDim - 1) : Cardinality(CellsHolding(i, gridDim, imageDim)) = 1

\* C19: for every image width w >= 1 the column ranges of the cells
\* partition the columns 0..w-1: every column lies in exactly one cell, the
\* first range starts at 0 and the last ends at w; likewise for the rows.
C19_CellsPartitionPixels ==
  (GdDone /\ GdOfImage) =>
    /\ gdIn.img.w >= 1 => IsPartition(GRID_W, gdIn.img.w)
    /\ gdIn.img.h >= 1 => IsPartition(GRID_H, gdIn.img.h)

\* an image wider than the grid by no whole factor, and shorter than it
C19_Witness ==
  /\ GdReturned /\ GdOfImage
  /\ gdIn.img.w > GRID_W /\ gdIn.img.w % GRID_W # 0
  /\ gdIn.img.h >= 1 /\ gdIn.img.h < GRID_H
  /\ IsPartition(GRID_W, gdIn.img.w)


----------------------------------------------------------------------------
(* Properties of smoothGrid (SpecGrid)                                     *)

IsBorder(y, x) == y = 0 \/ y = GRID_H - 1 \/ x = 0 \/ x = GRID_W - 1

\* centre 0.4, edge-adjacent 0.1, corner 0.05, in 1/KDEN
WeightAt(dy, dx) == IF dy = 0 /\ dx = 0 THEN 40 ELSE IF dy = 0 \/ dx = 0 THEN 10 ELSE 5

\* the weighted sum of the 3x3 neighbourhood of (y, x) in grid, times KDEN
NeighbourhoodSum(grid, y, x) ==
  LET term(dy, dx) == grid[y + dy][x + dx] * WeightAt(dy, dx)
      row(dy) == term(dy, 0 - 1) + term(dy, 0) + term(dy, 1)
  IN  row(0 - 1) + row(0) + row(1)

\* C20: smoothGrid is a single pass: every border cell (first and last row,
\* first and last column) keeps its value, and every interior cell becomes
\* the kernel-weighted sum of the values its 3x3 neighbourhood had before
\* the pass, never of an already smoothed neighbour.
C20_SinglePassFromCopy ==
  GdReturned =>
    \A y \in GridRows : \A x \in GridCols :
      IF IsBorder(y, x)
      THEN gdOut.grid[y][x] = gdRaw.grid[y][x]
      ELSE LET acc == NeighbourhoodSum(gdRaw.grid, y, x)
           IN  /\ KDEN * gdOut.grid[y][x] <= acc
               /\ acc < KDEN * (gdOut.grid[y][x] + 1)

\* a grid whose interior changes next to a border that does not
C20_Witness ==
  /\ GdReturned /\ gdIn.kind = "grid"
  /\ gdRaw.grid[0][1] = ONE /\ gdOut.grid[0][1] = ONE
  /\ gdRaw.grid[1][1] # gdOut.grid[1][1]
  /\ gdRaw.grid[1][2] # gdOut.grid[1][2]

----------------------------------------------------------------------------
(* Properties of the region mask (SpecGrid)                                *)

\* pixel (x, y) of a w x h image lies in the rectangle that regionMask
\* derives from one of the five region boxes
InsideSomeRegion(regions, w, h, x, y) ==
  /\ x >= 0 /\ x < w /\ y >= 0 /\ y < h
  /\ \E name \in RegionNames :
        LET b == regions[name]
        IN  /\ (b.x * w) \div UNIT <= x
            /\ x < Min2(w, ((b.x + b.width) * w) \div UNIT)
            /\ (b.y * h) \div UNIT <= y
            /\ y < Min2(h, ((b.y + b.height) * h) \div UNIT)

\* the pixels (x, y) of cell (gx, gy) that lie in some region rectangle
RegionPixelsOfCell(gx, gy) ==
  {p \in (CellStart(gx, GRID_W, gdIn.img.w)..(CellEnd(gx, GRID_W, gdIn.img.w) - 1))
           \X (CellStart(gy, GRID_H, gdIn.img.h)..(CellEnd(gy, GRID_H, gdIn.img.h) - 1)) :
     InsideSomeRegion(gdIn.regions, gdIn.img.w, gdIn.img.h, p[1], p[2])}

RECURSIVE ScoreSum(_)
ScoreSum(ps) ==
  IF ps = {} THEN 0
  ELSE LET p == CHOOSE q \in ps : TRUE
       IN  Intensity(gdIn.metric, Pixel(gdIn.img, p[1], p[2])) + ScoreSum(ps \ {p})

AverageOverRegions(gx, gy) ==
  LET ps == RegionPixelsOfCell(gx, gy)
  IN  IF ps = {} THEN 0 ELSE ScoreSum(ps) \div Cardinality(ps)

RegionsInUnitSquare(regions) ==
  \A name \in RegionNames :
     /\ regions[name].x >= 0 /\ regions[name].y >= 0
     /\ regions[name].width >= 0 /\ regions[name].height >= 0
     /\ regions[name].x + regions[name].width <= UNIT
     /\ regions[name].y + regions[name].height <= UNIT

\* C21: before smoothing, the value of a grid cell is the average of the
\* per-pixel score over exactly those pixels of the cell that lie inside at
\* least one of the five region rectangles; pixels outside all regions are
\* neither sampled nor counted, so the value depends on no such pixel.
C21_AverageOverRegionPixels ==
  (GdReturned /\ GdOfImage) =>
     \A gy \in GridRows : \A gx \in GridCols :
        gdRaw.grid[gy][gx] = AverageOverRegions(gx, gy)

\* the same, for region boxes that lie in the unit square
C21_AverageWhenRegionsInRange ==
  (GdReturned /\ GdOfImage /\ RegionsInUnitSquare(gdIn.regions)) =>
     \A gy \in GridRows : \A gx \in GridCols :
        gdRaw.grid[gy][gx] = AverageOverRegions(gx, gy)

----------------------------------------------------------------------------
(* Properties of the landmark index groups (SpecRegions)                   *)

\* the landmark indices extractSkinRegions uses for a region
IndexGroup(name) ==
  LET indices == CASE name = "forehead" -> ForeheadIdx
                   [] name = "leftCheek" -> LeftCheekIdx
                   [] name = "rightCheek" -> RightCheekIdx
                   [] name = "nose" -> NoseIdx
                   [] name = "chin" -> ChinIdx
  IN  {indices[k] : k \in 1..Len(indices)}

\* the indices that two different regions both use
SharedIndices ==
  UNION {IndexGroup(p[1]) \cap IndexGroup(p[2]) :
           p \in {q \in RegionNames \X RegionNames : q[1] # q[2]}}

\* C22: whenever regions are derived from landmarks, the index groups of
\* forehead, left cheek, right cheek, nose and chin are pairwise disjoint:
\* no landmark index belongs to the group of more than one region.
C22_IndexGroupsDisjoint ==
  (RgDone /\ RgSkinRegions # NoValue) =>
     \A a \in RegionNames : \A b \in RegionNames \ {a} :
        IndexGroup(a) \cap IndexGroup(b) = {}

\* the overlap is exactly that of chin with forehead
C22_OnlyChinSharesWithForehead ==
  (RgDone /\ RgSkinRegions # NoValue) =>
     /\ SharedIndices = {9, 10, 151}
     /\ IndexGroup("forehead") \cap IndexGroup("chin") = SharedIndices

----------------------------------------------------------------------------
(* Properties of the model singleton under cleanup (Spec)                  *)

\* C24: in every reachable state of the face-detection module, under any
\* interleaving of initializeFaceDetection, analyzeFaceForSkinAnalysis and
\* cleanupFaceDetection, isInitialized implies that faceDetector and
\* faceLandmarker both hold a model.
C24_InitializedImpliesModels ==
  isInitialized => (faceDetector # NoModel /\ faceLandmarker # NoModel)

\* without a cleanup the implication holds
C24_HoldsBeforeCleanup ==
  (cleanups = 0 /\ isInitialized) =>
     (faceDetector # NoModel /\ faceLandmarker # NoModel)

----------------------------------------------------------------------------
(* Properties of trackFaceInRealTime (SpecTracking)                        *)

\* C23: once the cancel function returned by trackFaceInRealTime has been
\* called, onFaceUpdate is never invoked again, even when a frame's face
\* analysis is in flight at the time of the call, and no further frame is
\* scheduled.
C23_SilentAfterCancel ==
  \A t \in TrackTasks : lateUpdates[t] = 0 /\ lateTimers[t] = 0

\* no frame is scheduled after the cancel
C23_NoFrameScheduledAfterCancel ==
  \A t \in TrackTasks : lateTimers[t] = 0

\* a cancel never reaches a frame whose models were loaded when it started
C23_LateUpdateOnlyAfterLoading ==
  [][\A t \in TrackTasks :
       lateUpdates'[t] # lateUpdates[t] => (analyses[t] = 1 /\ analyses'[t] = 0)]_vars

\* a frame of loop t settles in this step
FrameSettles(t) ==
  updates'[t] + errorsLogged'[t] = updates[t] + errorsLogged[t] + 1

\* C28: while tracking has not been cancelled and no frame has found the
\* video without width, the loop keeps going: after each frame, whether its
\* analysis succeeded or threw, the next frame is scheduled; an analysis
\* error is logged and never delivered to onFaceUpdate; and at most one
\* frame of a loop is in flight or scheduled at a time.
C28_LoopKeepsGoing ==
  [][\A t \in TrackTasks :
       /\ (FrameSettles(t) /\ isTracking'[t]) => (timers'[t] = 1 /\ analyses'[t] = 0)
       /\ (FrameSettles(t) /\ IsThrown(AnalyzeWithModels)) =>
             (updates'[t] = updates[t] /\ errorsLogged'[t] = errorsLogged[t] + 1)
       /\ analyses'[t] + timers'[t] <= 1
       /\ (trPhase'[t] = "tracking" /\ isTracking'[t] /\ ~sawNoVideo'[t]) =>
             analyses'[t] + timers'[t] = 1]_vars

\* a loop that is rescheduled after a frame that threw and after a frame
\* that was delivered
C28_Witness ==
  \E t \in TrackTasks :
     /\ isTracking[t] /\ ~cancelCalled[t]
     /\ errorsLogged[t] >= 1 /\ updates[t] >= 1
     /\ timers[t] = 1

----------------------------------------------------------------------------
(* Properties of CameraWithGuidance (SpecCamera)                           *)

\* the component was opened and closed, and nothing is pending any more
CgClosedAndSettled ==
  /\ ~isOpen
  /\ \E t \in InitTasks : pc[t] # "idle"
  /\ \A t \in InitTasks : pc[t] \in {"idle", "done"}
  /\ cameraRequests = 0
  /\ ~effectPending
  /\ \A t \in TrackTasks : analyses[t] = 0 /\ trPhase[t] # "init"

\* C25: after CameraWithGuidance is closed and all pending promises have
\* settled, every tracking loop the component started has had its cancel
\* function called and the tracks of the camera stream are stopped.
C25_NothingLeftRunning ==
  CgClosedAndSettled =>
     /\ \A t \in TrackTasks : trPhase[t] # "none" => cancelCalled[t]
     /\ liveStreams = 0

\* with one loop started and the stream obtained before the close, closing
\* cancels the loop and stops the tracks
C25_HoldsForOneLoopAndEarlyStream ==
  (CgClosedAndSettled /\ LoopsStarted <= 1 /\ streamRef = "null" /\ liveStreams = 0) =>
     \A t \in TrackTasks : trPhase[t] # "none" => cancelCalled[t]

\* two loops were started for one opening: by handleVideoReady and by the
\* effect
C25_NeverTwoLoops == LoopsStarted <= 1

\* the camera stream is obtained only while the component is open
C25_NoStreamAfterClose == (~isOpen) => liveStreams = 0

\* the component's loops never wait for the models
CgLoopsNeverAwaitModels ==
  \A t \in TrackTasks : pc[t] = "idle" /\ trPhase[t] # "init" /\ analyses[t] = 0

\* closing cancels every loop, whatever happened to the stream
C25_LoopsCancelledOnClose ==
  (CgClosedAndSettled /\ liveStreams = 0) =>
     \A t \in TrackTasks : trPhase[t] # "none" => cancelCalled[t]

----------------------------------------------------------------------------
(* Properties of the backend analysis of the Analysis page (SpecAnalysis)  *)

\* every captured file's request has completed successfully
AllRequestsSucceeded ==
  /\ analyzedImage >= 1
  /\ inflight = {}
  /\ saving = {}
  /\ Len(historySaved) = analyzedImage

\* the result, and with it the detections, of the file shown
ShowsResultOfLatestFile ==
  /\ pageAnalysisResult = MappedResult(ServiceData(analyzedImage))
  /\ pageAnalysisResult.detections = ServiceData(analyzedImage).detections

\* C26: when files are captured one after another and every backend request
\* has completed successfully, analysisResult (and the detections drawn) is
\* the result for the most recently captured file, whatever order the
\* responses arrive in; and isAnalyzing is true whenever a backend request
\* is in flight.
C26_LatestFileWins ==
  /\ (AllRequestsSucceeded /\ resultFrom = "service") => ShowsResultOfLatestFile
  /\ inflight # {} => pageIsAnalyzing

\* the first half alone
C26_ShowsLatestFile ==
  (AllRequestsSucceeded /\ resultFrom = "service") => ShowsResultOfLatestFile

\* the second half alone
C26_AnalyzingWhileInFlight == inflight # {} => pageIsAnalyzing

\* with a single capture both halves hold
C26_HoldsForOneCapture ==
  analyzedImage <= 1 =>
     /\ (AllRequestsSucceeded /\ resultFrom = "service") => ShowsResultOfLatestFile
     /\ inflight # {} => pageIsAnalyzing

\* the request of file ends in this step without a call of saveToHistory
RequestFails(file) == file \in inflight /\ file \notin inflight' /\ file \notin saving'

\* C27: when a backend analysis request fails (non-OK status, network error
\* or unparsable body) performAnalysis does not throw to its caller, leaves
\* the previous analysisResult unchanged, saves nothing to history, and
\* isAnalyzing is false once it returns; a request ends without saving only
\* when it fails.
C27_FailureIsContained ==
  [][\A file \in CapturedFiles :
       /\ RequestFails(file) =>
            /\ pageAnalysisResult' = pageAnalysisResult
            /\ resultFrom' = resultFrom
            /\ historySaved' = historySaved
            /\ pageIsAnalyzing' = FALSE
            /\ rejections' = rejections
       /\ (file \in inflight /\ file \in saving') =>
            /\ pageAnalysisResult' = MappedResult(ServiceData(file))
            /\ historySaved' = Append(historySaved, MappedResult(ServiceData(file)))]_vars

\* the request of the second file failed and the result of the first is
\* still shown
C27_Witness ==
  /\ analyzedImage = 2
  /\ inflight = {} /\ saving = {}
  /\ resultFrom = "service"
  /\ pageAnalysisResult = MappedResult(ServiceData(1))
  /\ historySaved = <<MappedResult(ServiceData(1))>>
  /\ ~pageIsAnalyzing
  /\ rejections = 0

----------------------------------------------------------------------------
(* C29: FaceScanner's detection loop                                       *)

\* C29: while detection is on, a detection frame is running or scheduled and
\* the camera is on; once detection is off (Stop Detection or Stop Camera was
\* pressed, or it was never started) no frame is running.
C29_FramesRunWhileDetecting ==
  /\ isDetecting => (framesInFlight > 0 /\ isCameraOn)
  /\ ~isDetecting => framesInFlight = 0

\* the second half of C29 alone: isDetecting implies isCameraOn
C29_DetectingImpliesCameraOn == isDetecting => isCameraOn

\* what the code does instead: startDetection's detectFaces reads the
\* isDetecting of the render in which the button said Start Detection, which
\* is false, so no call of detectFaces ever gets past its first line
C29_NoFrameEverRuns == framesStarted = 0

\* Start Detection has been pressed with the models loaded and the camera on
C29_DetectionStarted == isDetecting /\ isCameraOn /\ detectionStarts > 0

----------------------------------------------------------------------------
(* C30: the two box renderers (SpecRender)                                 *)

RdBoxesPainted ==
  /\ (RdPainted("drawAcne") \/ RdPainted("DetectionsOverlay"))
  /\ rdIn.mode = "boxes"

\* the marks the other renderer paints for the same detections
OtherRendererMarks ==
  IF rdIn.renderer = "drawAcne"
    THEN DetectionsOverlay(TRUE, [width |-> 640, height |-> 480], rdIn.dets,
                           rdIn.mode, rdIn.opacity).marks
    ELSE drawAcne(TRUE, rdIn.dets, rdIn.mode, rdIn.opacity).marks

\* C30: in box mode DetectionsOverlay and HeatmapGallery.drawAcne paint, for
\* every list of detections (confidences below 0.2 and above 1 included),
\* the same clamped confidence, hence the same fill alpha 0.12 * conf and the
\* same label round(conf * 100).
C30_BoxRenderersAgree ==
  RdBoxesPainted => rdOut.painted.marks = OtherRendererMarks

\* the two agree when no confidence is below 0.2
C30_AgreeFromOneFifth ==
  (RdBoxesPainted /\ \A i \in DOMAIN rdIn.dets : rdIn.dets[i].confidence >= 200)
    => rdOut.painted.marks = OtherRendererMarks

\* a box painted for a detection of confidence 0.1
C30_LowConfidenceBox ==
  /\ RdBoxesPainted
  /\ Len(rdIn.dets) = 1
  /\ rdIn.dets[1].confidence = 100


============================================================================
